---- MODULE Spec2Model ----
(***************************************************************************)
(* A model of the go-puppetdb client library: the parameter merger         *)
(* (mergeParam), the query encoder (QueryToJSON), the request path builder *)
(* (Client.Get / Client.httpGet), the fact decoder (Client.GetFacts), the  *)
(* query operations of Client with the decoding of their responses, and    *)
(* Get, Put and Delete of ClientMaster.                                    *)
(*                                                                         *)
(* Spec runs one call of one operation at a time. SessionSpec runs calls   *)
(* that follow each other on one client. ConcurrentSpec runs invocations   *)
(* of mergeParam and QueryToJSON step by step in goroutines.               *)
(*                                                                         *)
(* Go strings are modelled as sequences of one-character strings, so that  *)
(* trimming, searching, escaping and parsing work on the characters.       *)
(* A Go map[string]string is a record [nil, m]: nil tells a nil map from   *)
(* an allocated one, m is the function from keys to values.                *)
(***************************************************************************)
EXTENDS Integers, Sequences, FiniteSets, TLC

VARIABLES
    op,      \* the operation of the library that ran last
    args,    \* its arguments (and the transport's answer, for an HTTP call)
    ret,     \* what it returned
    history, \* the calls made on one client so far, when calls follow each other
    heap,    \* the maps and buffers allocated, when invocations run concurrently
    procs    \* the goroutines that run an invocation of mergeParam or QueryToJSON

vars == <<op, args, ret, history, heap, procs>>

------------------------------------------------------------------------------
(* Strings *)

EmptyString == <<>>

\* strings.Contains(s, c) for a one-character c
Contains(s, c) == \E i \in 1..Len(s) : s[i] = c

RECURSIVE Concat(_)
\* the concatenation of a sequence of strings
Concat(ss) == IF ss = <<>> THEN <<>> ELSE Head(ss) \o Concat(Tail(ss))

\* the set of all orders (sequences without repetition) of the finite set S
Orders(S) ==
    { o \in [1..Cardinality(S) -> S] : \A i, j \in 1..Cardinality(S) : o[i] = o[j] => i = j }

------------------------------------------------------------------------------
(* Parameter sets: map[string]string *)

NilMap == [nil |-> TRUE, m |-> << >>]

MapOf(f) == [nil |-> FALSE, m |-> f]

\* len(params)
MapLen(params) == Cardinality(DOMAIN params.m)

\* resultParams[k] = v
MapPut(f, k, v) == [x \in (DOMAIN f) \cup {k} |-> IF x = k THEN v ELSE f[x]]

\* for k, v := range params { resultParams[k] = v }
MapPutAll(f, g) == [x \in (DOMAIN f) \cup (DOMAIN g) |-> IF x \in DOMAIN g THEN g[x] ELSE f[x]]

\* A wrong merger: the primary parameter is written after the extra ones,
\* so that it wins a key collision.
mergeParamPrimaryLast(paramName, paramValue, params) ==
    LET r0 == << >>
        r1 == IF ~params.nil /\ MapLen(params) > 0 THEN MapPutAll(r0, params.m) ELSE r0
        r2 == IF paramValue # EmptyString THEN MapPut(r1, paramName, paramValue) ELSE r1
    IN  MapOf(r2)

\* A wrong merger: the primary parameter is inserted even when it is empty.
mergeParamKeepEmpty(paramName, paramValue, params) ==
    LET r1 == MapPut(<< >>, paramName, paramValue)
        r2 == IF ~params.nil /\ MapLen(params) > 0 THEN MapPutAll(r1, params.m) ELSE r1
    IN  MapOf(r2)

\* A wrong merger: an extra entry with an empty value is left out, as an empty
\* primary value is.
mergeParamSkipEmpty(paramName, paramValue, params) ==
    LET r1 == IF paramValue # EmptyString THEN MapPut(<< >>, paramName, paramValue) ELSE << >>
        kept == { k \in DOMAIN params.m : params.m[k] # EmptyString }
        r2 == IF ~params.nil /\ MapLen(params) > 0
              THEN MapPutAll(r1, [k \in kept |-> params.m[k]]) ELSE r1
    IN  MapOf(r2)

mergeParam(paramName, paramValue, params) ==
    LET r0 == << >>
        r1 == IF paramValue # EmptyString THEN MapPut(r0, paramName, paramValue) ELSE r0
        r2 == IF ~params.nil /\ MapLen(params) > 0 THEN MapPutAll(r1, params.m) ELSE r1
    IN  MapOf(r2)

------------------------------------------------------------------------------
(* Query expressions and encoding/json.Marshal *)

NoError == "<nil>"

\* Go values a caller can hand to QueryToJSON(query interface{})
Str(s) == [t |-> "string", s |-> s]

Slice(e) == [t |-> "slice", nil |-> FALSE, e |-> e]

\* the zero value of a slice type: var q []string
NilSlice == [t |-> "slice", nil |-> TRUE, e |-> << >>]

\* a value of a type encoding/json does not support (a channel, a function)
Chan == [t |-> "chan"]

\* a slice that contains itself: a := []interface{}{nil}; a[0] = a
Cyclic == [t |-> "cyclic"]

\* encodeState.string, one character: the JSON escape of c (escapeHTML is on).
\* "xFF" stands for a byte that is not valid UTF-8, "uFFFD" for U+FFFD.
EscapeChar(c) ==
    CASE c = "\"" -> <<"\\", "\"">>
      [] c = "\\" -> <<"\\", "\\">>
      [] c = "<" -> <<"\\", "u", "0", "0", "3", "c">>
      [] c = ">" -> <<"\\", "u", "0", "0", "3", "e">>
      [] c = "&" -> <<"\\", "u", "0", "0", "2", "6">>
      [] c = "xFF" -> <<"\\", "u", "f", "f", "f", "d">>
      [] OTHER -> <<c>>

\* encodeState.string: the quoted, escaped JSON string
EncodeString(s) == <<"\"">> \o Concat([i \in 1..Len(s) |-> EscapeChar(s[i])]) \o <<"\"">>

RECURSIVE Encode(_)
RECURSIVE EncodeElems(_, _, _)

\* encodeState.reflectValue: what the encoder has written to its buffer and the
\* error that stopped it, if any
Encode(v) ==
    CASE v.t = "string" -> [buf |-> EncodeString(v.s), err |-> NoError]
      [] v.t = "slice" ->
            IF v.nil THEN [buf |-> <<"n", "u", "l", "l">>, err |-> NoError]
            ELSE LET r == EncodeElems(v.e, 1, <<"[">>)
                 IN  IF r.err # NoError THEN r
                     ELSE [buf |-> r.buf \o <<"]">>, err |-> NoError]
      [] v.t = "chan" -> [buf |-> << >>, err |-> "UnsupportedTypeError"]
      [] v.t = "cyclic" -> [buf |-> << >>, err |-> "UnsupportedValueError"]

\* arrayEncoder.encode: the elements from the i-th on, separated by commas
EncodeElems(e, i, buf) ==
    IF i > Len(e) THEN [buf |-> buf, err |-> NoError]
    ELSE LET sep == IF i > 1 THEN <<",">> ELSE << >>
             r == Encode(e[i])
         IN  IF r.err # NoError THEN [buf |-> buf \o sep \o r.buf, err |-> r.err]
             ELSE EncodeElems(e, i + 1, buf \o sep \o r.buf)

\* json.Marshal: the bytes, or nil bytes and the error
Marshal(v) ==
    LET r == Encode(v)
    IN  IF r.err # NoError THEN [bytes |-> << >>, err |-> r.err]
        ELSE [bytes |-> r.buf, err |-> NoError]

\* A wrong encoder call: the error of json.Marshal is dropped.
QueryToJSONNoError(q) ==
    [result |-> Marshal(q).bytes, err |-> NoError]

\* A wrong encoder: a space is written after every comma, as a pretty printer does.
QueryToJSONSpaced(q) ==
    LET m == Marshal(q)
    IN  [result |-> Concat([i \in 1..Len(m.bytes) |->
                        IF m.bytes[i] = "," THEN <<",", " ">> ELSE <<m.bytes[i]>>]),
         err |-> m.err]

RECURSIVE RawEncode(_)
\* the text a hand-written formatter (fmt.Sprintf with %s between quotes) gives:
\* strings are quoted but not escaped
RawEncode(v) ==
    CASE v.t = "string" -> <<"\"">> \o v.s \o <<"\"">>
      [] v.t = "slice" ->
            IF v.nil THEN <<"n", "u", "l", "l">>
            ELSE <<"[">>
                 \o Concat([i \in 1..Len(v.e) |->
                        (IF i > 1 THEN <<",">> ELSE << >>) \o RawEncode(v.e[i])])
                 \o <<"]">>
      [] OTHER -> << >>

\* A wrong encoder: the strings are quoted without JSON escaping.
QueryToJSONRaw(q) ==
    LET m == Marshal(q)
    IN  [result |-> IF m.err = NoError THEN RawEncode(q) ELSE << >>, err |-> m.err]

QueryToJSON(q) ==
    LET m == Marshal(q)
        jsonQuery == m.bytes
    IN  [result |-> jsonQuery, err |-> m.err]

------------------------------------------------------------------------------
(* JSON values of a response body, as a JSON reader sees them *)

JString(s) == [j |-> "string", s |-> s]

JNumber(n) == [j |-> "number", n |-> n]

JBool(b) == [j |-> "bool", b |-> b]

JNullValue == [j |-> "null"]

JArray(e) == [j |-> "array", e |-> e]

JObject(f) == [j |-> "object", f |-> f]

\* a response body: bytes that do not start with a JSON value, a JSON value on
\* its own, or a JSON value followed by other bytes
InvalidBody == [valid |-> FALSE, value |-> JNullValue, trailing |-> FALSE]

Body(value) == [valid |-> TRUE, value |-> value, trailing |-> FALSE]

BodyThenBytes(value) == [valid |-> TRUE, value |-> value, trailing |-> TRUE]

\* what the transport gives back: an error, or a response with a status code
\* and a body
TransportError == [err |-> "transport error", status |-> 0, body |-> InvalidBody]

ResponseWith(status, body) == [err |-> NoError, status |-> status, body |-> body]

Response(body) == ResponseWith(200, body)

------------------------------------------------------------------------------
(* The request path builder: Client.Get and Client.httpGet *)

apiPrefixV4 == <<"/", "p", "d", "b", "/", "q", "u", "e", "r", "y", "/", "v", "4", "/">>

apiPrefixV3 == <<"/", "v", "3", "/">>

\* A wrong trim: strings.TrimSuffix removes one trailing cutset character only.
TrimSuffixOnce(s, c) ==
    IF s # << >> /\ s[Len(s)] = c THEN SubSeq(s, 1, Len(s) - 1) ELSE s

RECURSIVE TrimRight(_, _)
\* strings.TrimRight(s, c) for a one-character cutset
TrimRight(s, c) ==
    IF s # << >> /\ s[Len(s)] = c THEN TrimRight(SubSeq(s, 1, Len(s) - 1), c) ELSE s

\* url.QueryEscape, one character: unreserved characters stay, a space becomes
\* '+', every other byte becomes %XX
QueryEscapeChar(ch) ==
    CASE ch = " " -> <<"+">>
      [] ch = "&" -> <<"%", "2", "6">>
      [] ch = "=" -> <<"%", "3", "D">>
      [] ch = "?" -> <<"%", "3", "F">>
      [] ch = "/" -> <<"%", "2", "F">>
      [] ch = "+" -> <<"%", "2", "B">>
      [] ch = "%" -> <<"%", "2", "5">>
      [] ch = "\"" -> <<"%", "2", "2">>
      [] ch = "," -> <<"%", "2", "C">>
      [] ch = "[" -> <<"%", "5", "B">>
      [] ch = "]" -> <<"%", "5", "D">>
      [] OTHER -> <<ch>>

QueryEscape(v) == Concat([i \in 1..Len(v) |-> QueryEscapeChar(v[i])])

\* A wrong loop: the pairs are joined by '&', with none after the last pair.
ParamPairsJoined(params, order) ==
    Concat([i \in 1..Len(order) |->
        order[i] \o <<"=">> \o QueryEscape(params.m[order[i]])
            \o (IF i < Len(order) THEN <<"&">> ELSE << >>)])

\* for k, v := range params { pathAndParams += fmt.Sprintf("%s=%s&", k, url.QueryEscape(v)) }
\* with the keys in the order the map iteration yields them
ParamPairs(params, order) ==
    Concat([i \in 1..Len(order) |->
        order[i] \o <<"=">> \o QueryEscape(params.m[order[i]]) \o <<"&">>])

\* A wrong path builder: the '?' is appended whether or not the path has one.
PathAndParamsAlwaysMark(path, params, order) ==
    IF ~params.nil /\ MapLen(params) > 0
    THEN path \o <<"?">> \o ParamPairs(params, order)
    ELSE path

\* the first lines of Client.Get: the path with the parameters appended
PathAndParams(path, params, order) ==
    IF ~params.nil /\ MapLen(params) > 0
    THEN (IF ~Contains(path, "?") THEN path \o <<"?">> ELSE path) \o ParamPairs(params, order)
    ELSE path

\* A wrong URL builder: only one trailing slash of the base is removed.
httpGetURLTrimOnce(c, endpoint) ==
    TrimSuffixOnce(c.BaseURL, "/")
        \o (IF c.api = "v4" THEN apiPrefixV4 ELSE apiPrefixV3) \o endpoint

\* Client.httpGet: the URL handed to httpClient.Get ("%s/pdb/query/v4/%s" in the
\* current client, "%s/v3/%s" in the v3 client)
httpGetURL(c, endpoint) ==
    LET base == TrimRight(c.BaseURL, "/")
    IN  base \o (IF c.api = "v4" THEN apiPrefixV4 ELSE apiPrefixV3) \o endpoint

\* Client.httpGet: the request it issues
httpGet(c, endpoint) == [method |-> "GET", url |-> httpGetURL(c, endpoint)]

\* json.NewDecoder(resp.Body).Decode(&v) for v holding a *[]string: the value of
\* the slice afterwards. The error of Decode is not looked at.
DecodeStrings(body, v) ==
    IF ~body.valid THEN v
    ELSE IF body.value.j = "array"
        THEN [i \in 1..Len(body.value.e) |->
                IF body.value.e[i].j = "string" THEN body.value.e[i].s ELSE EmptyString]
    ELSE v

\* Client.Get(v, path, params), v holding a pointer to an empty []string, with
\* the map iteration order and the transport's answer: the requests issued,
\* the slice afterwards and the error returned
Get(c, path, params, order, resp) ==
    LET pathAndParams == PathAndParams(path, params, order)
        request == httpGet(c, pathAndParams)
    IN  IF resp.err # NoError
        THEN [requests |-> <<request>>, v |-> << >>, err |-> resp.err]
        ELSE [requests |-> <<request>>, v |-> DecodeStrings(resp.body, << >>),
              err |-> NoError]

------------------------------------------------------------------------------
(* The fact decoder: Client.GetFacts over gabs containers *)

\* a *gabs.Container: the nil pointer, or a container holding a decoded value
NilContainer == [nilptr |-> TRUE, object |-> JNullValue]

Container(object) == [nilptr |-> FALSE, object |-> object]

\* gabs.ParseJSON(body): json.Unmarshal of the whole body, nil when the body
\* is not one JSON value
gabsParseJSON(body) ==
    IF body.valid /\ ~body.trailing THEN Container(body.value) ELSE NilContainer

\* Container.Data(): nil for a nil container
Data(g) == IF g.nilptr THEN JNullValue ELSE g.object

\* A wrong count: a value that is not an array counts as an empty array.
ArrayCountLenient(g) ==
    [count |-> IF Data(g).j = "array" THEN Len(Data(g).e) ELSE 0, err |-> NoError]

\* Container.ArrayCount()
ArrayCount(g) ==
    IF Data(g).j = "array" THEN [count |-> Len(Data(g).e), err |-> NoError]
    ELSE [count |-> 0, err |-> "ErrNotArray"]

\* Container.ArrayElement(i), Go's index i being element i + 1 here
ArrayElement(g, i) == Container(Data(g).e[i + 1])

\* Container.Path(key) for a key without dots: nil when g holds no object or
\* the object has no such key
Path(g, key) ==
    IF Data(g).j = "object" /\ key \in DOMAIN Data(g).f THEN Container(Data(g).f[key])
    ELSE NilContainer

\* x.Data().(string): the single-value type assertion panics unless the value
\* is a string
AssertString(g) ==
    IF Data(g).j = "string" THEN [panic |-> FALSE, s |-> Data(g).s]
    ELSE [panic |-> TRUE, s |-> EmptyString]

\* the number a string of decimal digits writes
RECURSIVE DigitsValue(_)
DigitsValue(s) ==
    IF s = << >> THEN 0
    ELSE 10 * DigitsValue(SubSeq(s, 1, Len(s) - 1))
         + (CHOOSE d \in 0..9 : <<"0", "1", "2", "3", "4", "5", "6", "7", "8", "9">>[d + 1] = s[Len(s)])

IsDigits(s) ==
    s # << >> /\ \A i \in 1..Len(s) : s[i] \in {"0", "1", "2", "3", "4", "5", "6", "7", "8", "9"}

\* A wrong value decoder: a string that reads as a number is turned into one.
FactValueGuessed(something) ==
    LET value == Path(something, "value")
    IN  IF ~value.nilptr /\ value.object.j = "string" /\ IsDigits(value.object.s)
        THEN Container(JNumber(DigitsValue(value.object.s)))
        ELSE value

\* value := something.Path("value")
FactValue(something) == Path(something, "value")

\* A wrong element decoder: the value is asserted to be a string, as the
\* string-typed Value field of the older FactJSON wanted it.
FactOfStringValue(something) ==
    LET certname == AssertString(Path(something, "certname"))
        environment == AssertString(Path(something, "environment"))
        name == AssertString(Path(something, "name"))
        value == AssertString(Path(something, "value"))
    IN  [panic |-> certname.panic \/ environment.panic \/ name.panic \/ value.panic,
         j |-> [CertName |-> certname.s, Environment |-> environment.s,
                Name |-> name.s, Value |-> Container(JString(value.s))]]

\* the body of the loop of GetFacts: the FactJSON of one array element, or a
\* panic of one of the three type assertions
FactOf(something) ==
    LET certname == AssertString(Path(something, "certname"))
        value == FactValue(something)
        environment == AssertString(Path(something, "environment"))
        name == AssertString(Path(something, "name"))
    IN  [panic |-> certname.panic \/ environment.panic \/ name.panic,
         j |-> [CertName |-> certname.s, Environment |-> environment.s,
                Name |-> name.s, Value |-> value]]

RECURSIVE FactLoopPrepend(_, _, _, _)
\* A wrong loop: each record is put in front of the ones before it.
FactLoopPrepend(jsonParsed, counter, count, acc) ==
    IF counter >= count THEN [panic |-> FALSE, ret |-> acc]
    ELSE LET r == FactOf(ArrayElement(jsonParsed, counter))
         IN  IF r.panic THEN [panic |-> TRUE, ret |-> << >>]
             ELSE FactLoopPrepend(jsonParsed, counter + 1, count, <<r.j>> \o acc)

RECURSIVE FactLoop(_, _, _, _)
\* for counter < count { ...; ret = append(ret, j); counter++ }
FactLoop(jsonParsed, counter, count, acc) ==
    IF counter >= count THEN [panic |-> FALSE, ret |-> acc]
    ELSE LET r == FactOf(ArrayElement(jsonParsed, counter))
         IN  IF r.panic THEN [panic |-> TRUE, ret |-> << >>]
             ELSE FactLoop(jsonParsed, counter + 1, count, Append(acc, r.j))

\* Client.GetFacts(path) with the transport's answer: the requests issued, how
\* the call ended (a return or a panic), the records and the error returned
GetFacts(c, path, resp) ==
    LET request == httpGet(c, path)
        jsonParsed == gabsParseJSON(resp.body)
        n == ArrayCount(jsonParsed)
        loop == FactLoop(jsonParsed, 0, n.count, << >>)
    IN  IF resp.err # NoError
        THEN [requests |-> <<request>>, outcome |-> "return", ret |-> << >>, err |-> resp.err]
        ELSE IF loop.panic
        THEN [requests |-> <<request>>, outcome |-> "panic", ret |-> << >>, err |-> NoError]
        ELSE [requests |-> <<request>>, outcome |-> "return", ret |-> loop.ret, err |-> n.err]

\* Client.NodeFacts(node): fmt.Sprintf("nodes/%s/facts", node)
NodeFactsPath(node) == <<"n", "o", "d", "e", "s", "/">> \o node \o <<"/", "f", "a", "c", "t", "s">>

\* Client.FactPerNode(fact): fmt.Sprintf("facts/%s", fact)
FactPerNodePath(fact) == <<"f", "a", "c", "t", "s", "/">> \o fact

------------------------------------------------------------------------------
(* Decoding a response into a typed value: json.Decoder.Decode over the record
   types of the client. A Go string is a sequence of characters, a bool a
   BOOLEAN, an int64 or a float64 an integer, a slice a sequence, a struct the
   function from its JSON keys to the values of its fields, a
   map[string]string the function from its keys, an interface{} the JSON
   value it holds. *)

TString == [k |-> "string"]

TBool == [k |-> "bool"]

TInt64 == [k |-> "int64"]

TFloat64 == [k |-> "float64"]

TInterface == [k |-> "interface"]

TSlice(elem) == [k |-> "slice", elem |-> elem]

TMap(elem) == [k |-> "map", elem |-> elem]

TStruct(fields) == [k |-> "struct", fields |-> fields]

\* a struct type whose fields all have one type
Fields(keys, T) == [f \in keys |-> T]

\* f extended or overridden by g
Merge(f, g) ==
    [x \in (DOMAIN f) \cup (DOMAIN g) |-> IF x \in DOMAIN g THEN g[x] ELSE f[x]]

NodeJSON ==
    TStruct(Merge(
        Fields({"certname", "deactivated", "catalog_timestamp", "facts_timestamp",
                "catalog_environment", "facts_environment", "latest_report_hash",
                "cached_catalog_status", "report_environment", "report_timestamp",
                "latest_report_corrective_change", "expired",
                "latest_report_job_id", "latest_report_status"}, TString),
        Fields({"latest_report_noop", "latest_report_noop_pending"}, TBool)))

Version == TStruct(Fields({"version"}, TString))

PuppetReportMetricsLogEntry ==
    TStruct(Merge(
        Fields({"new_value", "property", "file", "line", "time", "level",
                "source", "message"}, TString),
        Fields({"tags"}, TSlice(TString))))

PuppetReportLog ==
    TStruct(Merge(Fields({"href"}, TString),
                  Fields({"data"}, TSlice(PuppetReportMetricsLogEntry))))

PuppetReportResource == TStruct(Fields({"href"}, TString))

PuppetReportMetricsDataEntry ==
    TStruct(Merge(Fields({"name", "category"}, TString),
                  Fields({"value"}, TFloat64)))

PuppetReportMetrics ==
    TStruct(Merge(Fields({"href"}, TString),
                  Fields({"data"}, TSlice(PuppetReportMetricsDataEntry))))

ReportJSON ==
    TStruct(Merge(Merge(Merge(
        Fields({"certname", "puppet_version", "value", "hash",
                "configuration_version", "catalog_uuid", "transaction_uuid",
                "start_time", "end_time", "receive_time", "producer",
                "corrective_change", "producer_timestamp",
                "cached_catalog_status", "Status", "Environment", "code_id"},
               TString),
        Fields({"noop", "noop_pending"}, TBool)),
        Fields({"report_format"}, TInt64)),
        [logs |-> PuppetReportLog, resource_events |-> PuppetReportResource,
         metrics |-> PuppetReportMetrics]))

EventCountJSON ==
    TStruct(Merge(Merge(
        Fields({"subject-type"}, TString),
        Fields({"subject"}, TMap(TString))),
        Fields({"failures", "successes", "noops", "skips"}, TInt64)))

EventJSON ==
    TStruct(Fields({"certname", "old-value", "property", "timestamp",
                    "resource-typ", "resource-title", "new-value", "message",
                    "report", "status", "file", "containment-path",
                    "containing-class", "run-start-time", "run-end-time",
                    "report-receive-time"}, TString))

Resource ==
    TStruct(Merge(Merge(Merge(Merge(
        Fields({"title", "type", "resource", "certname"}, TString),
        Fields({"parameters"}, TMap(TInterface))),
        Fields({"line"}, TInt64)),
        Fields({"exported"}, TBool)),
        Fields({"tags"}, TSlice(TString))))

\* the field of ValueMetricJSON has no tag: its key is its name
ValueMetricJSON == TStruct(Fields({"Value"}, TFloat64))

\* the zero value of a type
RECURSIVE Zero(_)
Zero(T) ==
    CASE T.k = "string" -> EmptyString
      [] T.k = "bool" -> FALSE
      [] T.k \in {"int64", "float64"} -> 0
      [] T.k = "interface" -> JNullValue
      [] T.k \in {"slice", "map"} -> << >>
      [] T.k = "struct" -> [f \in DOMAIN T.fields |-> Zero(T.fields[f])]

\* the keys of a JSON object that a struct takes: matching keys go to their
\* fields, the others are skipped
StructKeysStrict(object, T) ==
    IF DOMAIN object.f \subseteq DOMAIN T.fields THEN DOMAIN object.f ELSE {}

StructKeys(object, T) == (DOMAIN object.f) \cap (DOMAIN T.fields)

\* a JSON null leaves a string, a bool, a number or a struct as it is, and
\* sets a slice, a map or an interface to nil
DecodeNull(T, cur) ==
    IF T.k \in {"slice", "map", "interface"} THEN Zero(T) ELSE cur

RECURSIVE Mismatch(_, _)

\* decoding JSON value j into a Go value of type T saves an UnmarshalTypeError:
\* some value in j has a JSON type that its target does not take
Mismatch(j, T) ==
    IF j.j = "null" THEN FALSE
    ELSE CASE T.k = "interface" -> FALSE
      [] T.k = "string" -> j.j # "string"
      [] T.k = "bool" -> j.j # "bool"
      [] T.k \in {"int64", "float64"} -> j.j # "number"
      [] T.k = "slice" ->
            IF j.j = "array" THEN \E i \in 1..Len(j.e) : Mismatch(j.e[i], T.elem)
            ELSE TRUE
      [] T.k = "map" ->
            IF j.j = "object" THEN \E key \in DOMAIN j.f : Mismatch(j.f[key], T.elem)
            ELSE TRUE
      [] T.k = "struct" ->
            IF j.j = "object"
            THEN \E f \in StructKeys(j, T) : Mismatch(j.f[f], T.fields[f])
            ELSE TRUE

RECURSIVE DecodeValue(_, _, _)

\* decoding JSON value j into a Go value of type T that holds cur: the value
\* afterwards. A value of the wrong JSON type is skipped, its target is left
\* as it was, and decoding goes on with the rest. An array is decoded into a
\* slice cut to length zero that grows by one zero element per element.
DecodeValue(j, T, cur) ==
    IF j.j = "null" THEN DecodeNull(T, cur)
    ELSE CASE T.k = "interface" -> j
      [] T.k = "string" -> IF j.j = "string" THEN j.s ELSE cur
      [] T.k = "bool" -> IF j.j = "bool" THEN j.b ELSE cur
      [] T.k \in {"int64", "float64"} -> IF j.j = "number" THEN j.n ELSE cur
      [] T.k = "slice" ->
            IF j.j = "array"
            THEN [i \in 1..Len(j.e) |-> DecodeValue(j.e[i], T.elem, Zero(T.elem))]
            ELSE cur
      [] T.k = "map" ->
            IF j.j = "object"
            THEN [key \in (DOMAIN cur) \cup (DOMAIN j.f) |->
                    IF key \in DOMAIN j.f
                    THEN DecodeValue(j.f[key], T.elem, Zero(T.elem))
                    ELSE cur[key]]
            ELSE cur
      [] T.k = "struct" ->
            IF j.j = "object"
            THEN [f \in DOMAIN T.fields |->
                    IF f \in StructKeys(j, T)
                    THEN DecodeValue(j.f[f], T.fields[f], cur[f])
                    ELSE cur[f]]
            ELSE cur

\* json.NewDecoder(resp.Body).Decode(&v), v holding a pointer to a value cur of
\* type T: a body that is not JSON is given up before anything is stored, and
\* a null body sets the Decoder's own interface to nil and leaves cur alone
Decode(body, T, cur) ==
    IF ~body.valid THEN [v |-> cur, err |-> TRUE]
    ELSE IF body.value.j = "null" THEN [v |-> cur, err |-> FALSE]
    ELSE [v |-> DecodeValue(body.value, T, cur), err |-> Mismatch(body.value, T)]

------------------------------------------------------------------------------
(* The operations of Client over Client.Get. Each gives the requests it
   issued, how it ended, and the result and the error it returned. *)

\* the parameter names of the query operations
query == <<"q", "u", "e", "r", "y">>

summarizeBy == <<"s", "u", "m", "m", "a", "r", "i", "z", "e", "-", "b", "y">>

\* A wrong Get: the error of the transport is wrapped in one of its own.
GetIntoWrapped(c, T, cur, path, params, order, resp) ==
    LET pathAndParams == PathAndParams(path, params, order)
        request == httpGet(c, pathAndParams)
    IN  IF resp.err # NoError
        THEN [requests |-> <<request>>, decoded |-> FALSE, v |-> cur, err |-> "Get failed"]
        ELSE [requests |-> <<request>>, decoded |-> TRUE,
              v |-> Decode(resp.body, T, cur).v, err |-> NoError]

\* Client.Get(v, path, params), v holding a pointer to the value cur of type
\* T: Decode runs only on a response, and its error is not looked at
GetInto(c, T, cur, path, params, order, resp) ==
    LET pathAndParams == PathAndParams(path, params, order)
        request == httpGet(c, pathAndParams)
    IN  IF resp.err # NoError
        THEN [requests |-> <<request>>, decoded |-> FALSE, v |-> cur, err |-> resp.err]
        ELSE [requests |-> <<request>>, decoded |-> TRUE,
              v |-> Decode(resp.body, T, cur).v, err |-> NoError]

\* err := c.Get(&ret, ...); return ret, err
Returned(got) ==
    [requests |-> got.requests, outcome |-> "return", decoded |-> got.decoded,
     ret |-> got.v, err |-> got.err]

Nodes(c, resp) ==
    Returned(GetInto(c, TSlice(NodeJSON), << >>, <<"n", "o", "d", "e", "s">>, NilMap, << >>, resp))

FactNames(c, resp) ==
    Returned(GetInto(c, TSlice(TString), << >>, <<"f", "a", "c", "t", "-", "n", "a", "m", "e", "s">>, NilMap, << >>, resp))

\* A wrong EventCounts: the named arguments are written after the extra
\* parameters, so that they win a key collision.
EventCountsNamedWin(c, q, by, extraParams, order, resp) ==
    LET params == mergeParamPrimaryLast(summarizeBy, by,
                      mergeParamPrimaryLast(query, q, extraParams))
    IN  Returned(GetInto(c, TSlice(EventCountJSON), << >>, <<"e", "v", "e", "n", "t", "-", "c", "o", "u", "n", "t", "s">>,
                         params, order, resp))

EventCounts(c, q, by, extraParams, order, resp) ==
    LET params == mergeParam(summarizeBy, by, mergeParam(query, q, extraParams))
    IN  Returned(GetInto(c, TSlice(EventCountJSON), << >>, <<"e", "v", "e", "n", "t", "-", "c", "o", "u", "n", "t", "s">>,
                         params, order, resp))

Events(c, q, extraParams, order, resp) ==
    LET params == mergeParam(query, q, extraParams)
    IN  Returned(GetInto(c, TSlice(EventJSON), << >>, <<"e", "v", "e", "n", "t", "s">>, params, order, resp))

Resources(c, q, extraParams, order, resp) ==
    LET params == mergeParam(query, q, extraParams)
    IN  Returned(GetInto(c, TSlice(Resource), << >>, <<"r", "e", "s", "o", "u", "r", "c", "e", "s">>, params, order, resp))

Reports(c, q, extraParams, order, resp) ==
    LET params == mergeParam(query, q, extraParams)
    IN  Returned(GetInto(c, TSlice(ReportJSON), << >>, <<"r", "e", "p", "o", "r", "t", "s">>, params, order, resp))

\* fmt.Sprintf("[\"=\", \"hash\", \"%s\"]", hash)
HashQuery(hash) ==
    <<"[", "\"", "=", "\"", ",", " ", "\"", "h", "a", "s", "h", "\"", ",",
      " ", "\"">> \o hash \o <<"\"", "]">>

ReportByHash(c, hash, order, resp) ==
    LET params == mergeParam(query, HashQuery(hash), NilMap)
    IN  Returned(GetInto(c, TSlice(ReportJSON), << >>, <<"r", "e", "p", "o", "r", "t", "s">>, params, order, resp))

PuppetdbVersion(c, resp) ==
    Returned(GetInto(c, Version, Zero(Version), <<"v", "e", "r", "s", "i", "o", "n">>, NilMap, << >>, resp))

\* Client.Metric(v, metric), v holding a pointer to cur of type T
Metric(c, T, cur, metric, resp) ==
    GetInto(c, T, cur, <<"m", "e", "t", "r", "i", "c", "s", "/", "m", "b", "e", "a", "n", "/">> \o metric, NilMap, << >>, resp)

population == <<"c", "o", "m", ".", "p", "u", "p", "p", "e", "t", "l", "a", "b", "s",
      ".", "p", "u", "p", "p", "e", "t", "d", "b", ".", "q", "u", "e",
      "r", "y", ".", "p", "o", "p", "u", "l", "a", "t", "i", "o", "n",
      ":", "t", "y", "p", "e", "=", "d", "e", "f", "a", "u", "l", "t",
      ",", "n", "a", "m", "e", "=">>

avgResourcesPerNode == population \o <<"a", "v", "g", "-", "r", "e", "s", "o", "u", "r", "c", "e", "s", "-",
      "p", "e", "r", "-", "n", "o", "d", "e">>

numResources == population \o <<"n", "u", "m", "-", "r", "e", "s", "o", "u", "r", "c", "e", "s">>

numNodes == population \o <<"n", "u", "m", "-", "n", "o", "d", "e", "s">>

\* ret := ValueMetricJSON{}; return ret.Value, c.Metric(&ret, metric), ret
\* being zero here. Go leaves the order between reading the operand ret.Value and making the
\* call c.Metric(&ret, ...) open: operandFirst tells which one the build took.
MetricValue(c, metric, operandFirst, resp) ==
    LET zero == Zero(ValueMetricJSON)
        got == Metric(c, ValueMetricJSON, zero, metric, resp)
    IN  [requests |-> got.requests, outcome |-> "return", decoded |-> got.decoded,
         ret |-> IF operandFirst THEN zero.Value ELSE got.v.Value,
         err |-> got.err]

MetricResourcesPerNode(c, operandFirst, resp) ==
    MetricValue(c, avgResourcesPerNode, operandFirst, resp)

MetricNumResources(c, operandFirst, resp) ==
    MetricValue(c, numResources, operandFirst, resp)

MetricNumNodes(c, operandFirst, resp) ==
    MetricValue(c, numNodes, operandFirst, resp)

------------------------------------------------------------------------------
(* ClientMaster: Get, Put and Delete against the puppet master. The transport
   answers a request with no response and an error, with a response and an
   error (the redirect limit), or with a response. *)

NoResponse ==
    [err |-> "transport error", nilresp |-> TRUE, status |-> 0, body |-> InvalidBody]

TooManyRedirects ==
    [err |-> "stopped after 10 redirects", nilresp |-> FALSE, status |-> 302,
     body |-> InvalidBody]

Answer(status, body) ==
    [err |-> NoError, nilresp |-> FALSE, status |-> status, body |-> body]

\* metrics := []string{"jruby-metrics", "master", "puppet-profiler", "status-service"}
metrics ==
    { <<"j", "r", "u", "b", "y", "-", "m", "e", "t", "r", "i", "c", "s">>, <<"m", "a", "s", "t", "e", "r">>, <<"p", "u", "p", "p", "e", "t", "-", "p", "r", "o", "f", "i", "l", "e",
      "r">>, <<"s", "t", "a", "t", "u", "s", "-", "s", "e", "r", "v", "i", "c", "e">> }

stringInSlice(a, list) == a \in list

HexDigits ==
    {"0", "1", "2", "3", "4", "5", "6", "7", "8", "9",
     "a", "b", "c", "d", "e", "f", "A", "B", "C", "D", "E", "F"}

\* http.NewRequest parses the URL: a '%' that does not start an escape of two
\* hex digits makes it fail
NewRequestFails(url) ==
    \E i \in 1..Len(url) :
        /\ url[i] = "%"
        /\ ~(i + 2 <= Len(url) /\ url[i + 1] \in HexDigits /\ url[i + 2] \in HexDigits)

\* ClientMaster.httpGet: the URL of the request
masterGetURL(c, endpoint) ==
    LET base == TrimRight(c.BaseURL, "/")
    IN  IF stringInSlice(endpoint, metrics)
        THEN base \o <<"/", "s", "t", "a", "t", "u", "s", "/", "v", "1", "/", "s", "e", "r",
      "v", "i", "c", "e", "s", "/">> \o endpoint \o <<"?", "l", "e", "v", "e", "l", "=", "d", "e", "b", "u", "g">>
        ELSE base \o endpoint

\* ClientMaster.httpPut and ClientMaster.httpDelete: the URL of the request
masterURL(c, endpoint) == TrimRight(c.BaseURL, "/") \o endpoint

\* statusCode := -1; if resp != nil { statusCode = resp.StatusCode }
\* A wrong status code: the code of the response is kept only when the call
\* made no error.
StatusCodeOnSuccess(resp) ==
    IF resp.nilresp \/ resp.err # NoError THEN -1 ELSE resp.status

StatusCode(resp) == IF resp.nilresp THEN -1 ELSE resp.status

\* A wrong Get: a request the transport failed is sent once more.
MasterGetRetry(c, T, cur, path, resp) ==
    LET request == [method |-> "GET", url |-> masterGetURL(c, path)]
    IN  IF NewRequestFails(request.url)
        THEN [requests |-> << >>, v |-> cur, err |-> "invalid URL escape"]
        ELSE IF resp.err # NoError
        THEN [requests |-> <<request, request>>, v |-> cur, err |-> resp.err]
        ELSE [requests |-> <<request>>, v |-> Decode(resp.body, T, cur).v, err |-> NoError]

\* ClientMaster.Get(v, path), v holding a pointer to cur of type T. A URL that
\* does not parse fails inside httpClient.Get before anything is sent.
MasterGet(c, T, cur, path, resp) ==
    LET request == [method |-> "GET", url |-> masterGetURL(c, path)]
    IN  IF NewRequestFails(request.url)
        THEN [requests |-> << >>, v |-> cur, err |-> "invalid URL escape"]
        ELSE IF resp.err # NoError
        THEN [requests |-> <<request>>, v |-> cur, err |-> resp.err]
        ELSE [requests |-> <<request>>, v |-> Decode(resp.body, T, cur).v, err |-> NoError]

\* no Go value: the nil interface
NilValue == [t |-> "nil"]

\* what is left of the body for Decode: in verbose mode ioutil.ReadAll has
\* read it to its end
BodyLeft(c, resp) == IF c.verbose THEN InvalidBody ELSE resp.body

\* ClientMaster.Put(v, path, values), v holding a pointer to cur of type T:
\* the error of json.Marshal is overwritten by that of http.NewRequest
MasterPut(c, T, cur, path, values, resp) ==
    LET request == [method |-> "PUT", url |-> masterURL(c, path),
                    body |-> Marshal(values).bytes]
    IN  IF values = NilValue
        THEN [requests |-> << >>, v |-> cur, err |-> "No values specified",
              statusCode |-> -1]
        ELSE IF NewRequestFails(request.url)
        THEN [requests |-> << >>, v |-> cur, err |-> "invalid URL escape",
              statusCode |-> -1]
        ELSE IF resp.err # NoError
        THEN [requests |-> <<request>>, v |-> cur, err |-> resp.err,
              statusCode |-> StatusCode(resp)]
        ELSE [requests |-> <<request>>, v |-> Decode(BodyLeft(c, resp), T, cur).v,
              err |-> NoError, statusCode |-> StatusCode(resp)]

\* ClientMaster.Delete(path)
MasterDelete(c, path, resp) ==
    LET request == [method |-> "DELETE", url |-> masterURL(c, path)]
    IN  IF NewRequestFails(request.url)
        THEN [requests |-> << >>, err |-> "invalid URL escape", statusCode |-> -1]
        ELSE IF resp.err # NoError
        THEN [requests |-> <<request>>, err |-> resp.err, statusCode |-> StatusCode(resp)]
        ELSE [requests |-> <<request>>, err |-> NoError, statusCode |-> StatusCode(resp)]

PuppetCertificateState == TStruct(Fields({"desired_state"}, TString))

------------------------------------------------------------------------------
(* Inputs *)

\* parameter names and values handed to mergeParam
ParamNames == {query, summarizeBy}

ParamValues == {EmptyString, <<"Q">>, <<"R">>}

\* every map[string]string over the keys K with values in V, and the nil map
MapsOver(K, V) == {NilMap} \cup { MapOf(f) : f \in UNION { [D -> V] : D \in SUBSET K } }

ExtraSets == MapsOver(ParamNames, ParamValues)

\* the longest sequence in a query expression
MaxElems == 2

SeqsUpTo(S, n) == UNION { [1..k -> S] : k \in 0..n }

QueryStrings ==
    { <<"=">>, <<"a", "\"">>, <<"\\", "<">>, <<"xFF">>, <<"a", " ">>, EmptyString }

InnerElems == { Str(<<"=">>), Str(<<"a", "\"">>) }

InnerQueries == {NilSlice} \cup { Slice(e) : e \in SeqsUpTo(InnerElems, MaxElems) }

OuterElems == { Str(s) : s \in QueryStrings } \cup InnerQueries \cup {Chan, Cyclic}

\* the query expressions handed to QueryToJSON: scalars, sequences of them and
\* sequences with nested sequences
Queries == OuterElems \cup { Slice(e) : e \in SeqsUpTo(OuterElems, MaxElems) }

\* the most trailing slashes of a BaseURL
MaxSlashes == 2

Slashes(n) == [i \in 1..n |-> "/"]

BaseStems == { EmptyString, <<"h", "/", "p">> }

Clients ==
    { [BaseURL |-> stem \o Slashes(n), api |-> api] :
        stem \in BaseStems, n \in 0..MaxSlashes, api \in {"v4", "v3"} }

\* endpoint paths, without and with a query part of their own
Paths == { <<"e">>, <<"e", "?">>, <<"e", "?", "x", "=", "1">>, <<"e", "?", "x", "=", "1", "&">> }

GetKeys == { <<"a">>, <<"b">>, <<"c", "&", "d">> }

GetValues == { <<"1">>, <<" ", "&">>, EmptyString }

GetParams == MapsOver(GetKeys, GetValues)

Responses ==
    { TransportError,
      Response(InvalidBody),
      Response(Body(JArray(<<JString(<<"f">>), JNumber(7)>>))),
      Response(Body(JObject(<< >>))) }

\* the most elements of a facts response
MaxFacts == 2

uptime == <<"9", "7", "0", "8", "0", "0", "3">>

\* the JSON values a fact's 'value' takes: one of each JSON type
FactValues ==
    { JString(uptime), JNumber(42), JBool(TRUE), JNullValue,
      JArray(<<JString(<<"x">>), JNumber(1)>>),
      JObject([k \in {"k"} |-> JString(<<"x">>)]) }

WellFormed == [k \in {"certname", "environment", "name"} |-> JString(<<"n">>)]

\* a fact whose certname, environment and name differ from each other
Kernel ==
    [k \in {"certname", "environment", "name", "value"} |->
        CASE k = "certname" -> JString(<<"c">>)
          [] k = "environment" -> JString(<<"e">>)
          [] k = "name" -> JString(<<"k">>)
          [] k = "value" -> JString(<<"L">>)]

With(f, k, v) == [x \in (DOMAIN f) \cup {k} |-> IF x = k THEN v ELSE f[x]]

Without(f, k) == [x \in (DOMAIN f) \ {k} |-> f[x]]

\* the elements of a facts response: well-formed facts with every type of
\* value and with no value, facts with an unknown key, facts whose certname,
\* environment or name is missing, null or a number, and a non-object
FactElements ==
    { JObject(With(WellFormed, "value", v)) : v \in FactValues }
    \cup { JObject(WellFormed),
           JObject(With(With(WellFormed, "value", JString(uptime)), "extra", JNumber(1))),
           JObject(Kernel),
           JNumber(7) }
    \cup { JObject(Without(With(WellFormed, "value", JString(uptime)), k)) :
              k \in {"certname", "environment", "name"} }
    \cup { JObject(With(With(WellFormed, "value", JString(uptime)), k, v)) :
              k \in {"certname", "environment"}, v \in {JNullValue, JNumber(7)} }

FactResponses ==
    { TransportError, Response(InvalidBody), Response(Body(JObject(WellFormed))),
      Response(Body(JString(<<"x">>))), Response(Body(JNullValue)) }
    \cup { Response(Body(JArray(e))) : e \in SeqsUpTo(FactElements, MaxFacts) }

\* the keys of a parameter set; a nil map has none
Keys(params) == DOMAIN params.m

NodeNames == { <<"n">> }

\* GetFacts belongs to the current client only
FactClients == { c \in Clients : c.api = "v4" }

\* the most records of a response to a query operation
MaxRecords == 2

\* the responses to an operation that decodes a list of records: no response,
\* a body that is not JSON (with status 200 and with an error status), null, a
\* string, one record on its own in place of the list, lists of records, and
\* lists under an error status or followed by other bytes
ListResponses(elements) ==
    { TransportError, Response(InvalidBody), ResponseWith(404, InvalidBody),
      Response(Body(JNullValue)), Response(Body(JString(<<"x">>))) }
    \cup { Response(Body(e)) : e \in elements }
    \cup { ResponseWith(500, Body(JArray(<<e>>))) : e \in elements }
    \cup { Response(BodyThenBytes(JArray(<<e>>))) : e \in elements }
    \cup { Response(Body(JArray(e))) : e \in SeqsUpTo(elements, MaxRecords) }

\* the responses to an operation that decodes one record
RecordResponses(elements) ==
    { TransportError, Response(InvalidBody), ResponseWith(404, InvalidBody),
      Response(Body(JNullValue)), Response(Body(JArray(<< >>))) }
    \cup { Response(Body(e)) : e \in elements }
    \cup { ResponseWith(500, Body(e)) : e \in elements }
    \cup { Response(BodyThenBytes(e)) : e \in elements }

\* of one record: the record, the record with an unknown key, without a key,
\* with a null under a key, and with a value of the wrong type under a key
Variants(record, key, wrong) ==
    { JObject(record), JObject(With(record, "job_id", JNumber(1))),
      JObject(Without(record, key)), JObject(With(record, key, JNullValue)),
      JObject(With(record, key, wrong)) }

WellNode ==
    [certname |-> JString(<<"n">>), deactivated |-> JString(<<"d">>),
     latest_report_noop |-> JBool(TRUE)]

NodeElements == Variants(WellNode, "deactivated", JNumber(7)) \cup {JNumber(7)}

FactNameElements == { JString(<<"f">>), JNumber(7), JNullValue }

WellLogEntry ==
    [file |-> JString(<<"f">>), line |-> JNullValue,
     tags |-> JArray(<<JString(<<"t">>)>>), message |-> JString(<<"m">>)]

WellMetricsEntry ==
    [name |-> JString(<<"c">>), value |-> JNumber(3), category |-> JString(<<"r">>)]

\* a report as the reports endpoint sends it: it has no 'value' key
WellReport ==
    [certname |-> JString(<<"n">>), hash |-> JString(<<"h">>),
     transaction_uuid |-> JString(<<"u">>), report_format |-> JNumber(9),
     noop |-> JBool(TRUE), corrective_change |-> JNullValue,
     logs |-> JObject([href |-> JString(<<"l">>),
                       data |-> JArray(<<JObject(WellLogEntry)>>)]),
     metrics |-> JObject([href |-> JString(<<"m">>),
                          data |-> JArray(<<JObject(WellMetricsEntry)>>)])]

NullLogFile ==
    JObject([href |-> JString(<<"l">>),
             data |-> JArray(<<JObject(With(WellLogEntry, "file", JNullValue))>>)])

ReportElements ==
    Variants(WellReport, "transaction_uuid", JNumber(7))
    \cup { JObject(With(WellReport, "logs", NullLogFile)),
           JObject(With(WellReport, "report_format", JString(<<"9">>))) }

WellEventCount ==
    [failures |-> JNumber(1), successes |-> JNumber(2), noops |-> JNumber(0),
     skips |-> JNumber(0), subject |-> JObject([title |-> JString(<<"n">>)])]

EventCountElements ==
    { JObject(With(WellEventCount, "subject-type", JString(<<"c">>))),
      JObject(With(WellEventCount, "subject", JNullValue)),
      JObject(With(WellEventCount, "failures", JString(<<"1">>))) }

WellEvent == [certname |-> JString(<<"n">>), status |-> JString(<<"s">>)]

EventElements ==
    { JObject(With(WellEvent, "old-value", JString(<<"o">>))),
      JObject(With(WellEvent, "old-value", JNullValue)),
      JObject(With(WellEvent, "old-value", JNumber(7))) }

WellResource ==
    [parameters |-> JObject([ensure |-> JString(<<"p">>), mode |-> JNumber(7)]),
     line |-> JNumber(2), exported |-> JBool(TRUE),
     tags |-> JArray(<<JString(<<"t">>)>>), title |-> JString(<<"t">>),
     certname |-> JString(<<"n">>)]

ResourceElements ==
    { JObject(WellResource), JObject(With(WellResource, "parameters", JNullValue)),
      JObject(With(WellResource, "tags", JString(<<"t">>))) }

VersionElements == Variants([version |-> JString(<<"2">>)], "version", JNumber(2))

\* the bodies of a metric: the number under 'Value', as the metrics endpoint
\* sends it
MetricElements == Variants([Value |-> JNumber(309)], "Value", JString(<<"x">>))

\* the query texts and the extra parameters of the query operations
QueryTexts == { EmptyString, <<"Q">> }

limit == <<"l", "i", "m", "i", "t">>

QueryExtras ==
    { NilMap, MapOf([k \in {limit} |-> <<"1">>]), MapOf([k \in {query} |-> <<"R">>]) }

\* the extra parameters of EventCounts: those of the other operations, and
\* sets that name summarize-by
EventCountExtras ==
    QueryExtras
    \cup { MapOf([k \in {summarizeBy} |-> <<"R">>]),
           MapOf([k \in {query, summarizeBy} |-> IF k = query THEN <<"R">> ELSE EmptyString]) }

Hashes == { <<"h">>, <<"\"">> }

MasterClients ==
    { [BaseURL |-> BaseURL, verbose |-> verbose] :
        BaseURL \in { <<"h", "/", "p">>, <<"h", "/", "p", "/">> }, verbose \in BOOLEAN }

\* endpoints of the master: a path, the name of a metrics service, and a path
\* that is no URL
MasterPaths == { <<"/", "c">>, <<"m", "a", "s", "t", "e", "r">>, <<"/", "%", "z">> }

MasterResponses ==
    { NoResponse, TooManyRedirects, Answer(200, InvalidBody),
      Answer(200, Body(JObject([desired_state |-> JString(<<"s">>)]))),
      Answer(404, Body(JString(<<"x">>))) }

\* the values handed to Put: none, a string, and a value json.Marshal rejects
PutValues == { NilValue, Str(<<"s">>), Chan }

------------------------------------------------------------------------------
(* The state machine *)

NoArgs == [none |-> TRUE]

Init ==
    /\ op = "init"
    /\ args = NoArgs
    /\ ret = NoArgs
    /\ history = << >>
    /\ heap = << >>
    /\ procs = << >>

\* mergeParam(paramName, paramValue, params)
MergeParam ==
    /\ op = "init"
    /\ UNCHANGED <<history, heap, procs>>
    /\ \E paramName \in ParamNames, paramValue \in ParamValues, params \in ExtraSets :
        /\ op' = "mergeParam"
        /\ args' = [paramName |-> paramName, paramValue |-> paramValue, params |-> params]
        /\ ret' = mergeParam(paramName, paramValue, params)

\* QueryToJSON(query)
QueryToJSONCall ==
    /\ op = "init"
    /\ UNCHANGED <<history, heap, procs>>
    /\ \E q \in Queries :
        /\ op' = "QueryToJSON"
        /\ args' = [query |-> q]
        /\ ret' = QueryToJSON(q)

\* Client.Get(&ret, path, params) on a client c
ClientGet ==
    /\ op = "init"
    /\ UNCHANGED <<history, heap, procs>>
    /\ \E c \in Clients, path \in Paths, params \in GetParams, resp \in Responses :
        \E order \in Orders(DOMAIN params.m) :
            /\ op' = "Get"
            /\ args' = [c |-> c, path |-> path, params |-> params,
                        order |-> order, resp |-> resp]
            /\ ret' = Get(c, path, params, order, resp)

\* Client.NodeFacts(node): GetFacts on nodes/<node>/facts
NodeFacts ==
    /\ op = "init"
    /\ UNCHANGED <<history, heap, procs>>
    /\ \E c \in FactClients, node \in NodeNames, resp \in FactResponses :
        /\ op' = "NodeFacts"
        /\ args' = [c |-> c, node |-> node, resp |-> resp]
        /\ ret' = GetFacts(c, NodeFactsPath(node), resp)

\* Client.FactPerNode(fact): GetFacts on facts/<fact>
FactPerNode ==
    /\ op = "init"
    /\ UNCHANGED <<history, heap, procs>>
    /\ \E c \in FactClients, fact \in NodeNames, resp \in FactResponses :
        /\ op' = "FactPerNode"
        /\ args' = [c |-> c, fact |-> fact, resp |-> resp]
        /\ ret' = GetFacts(c, FactPerNodePath(fact), resp)

\* Client.Nodes()
NodesCall ==
    /\ op = "init"
    /\ UNCHANGED <<history, heap, procs>>
    /\ \E c \in FactClients, resp \in ListResponses(NodeElements) :
        /\ op' = "Nodes"
        /\ args' = [c |-> c, resp |-> resp]
        /\ ret' = Nodes(c, resp)

\* Client.FactNames()
FactNamesCall ==
    /\ op = "init"
    /\ UNCHANGED <<history, heap, procs>>
    /\ \E c \in FactClients, resp \in ListResponses(FactNameElements) :
        /\ op' = "FactNames"
        /\ args' = [c |-> c, resp |-> resp]
        /\ ret' = FactNames(c, resp)

\* Client.EventCounts(query, summarizeBy, extraParams)
EventCountsCall ==
    /\ op = "init"
    /\ UNCHANGED <<history, heap, procs>>
    /\ \E c \in FactClients, q \in QueryTexts, by \in QueryTexts,
          extraParams \in EventCountExtras, resp \in ListResponses(EventCountElements) :
        \E order \in Orders(Keys(mergeParam(summarizeBy, by,
                                            mergeParam(query, q, extraParams)))) :
            /\ op' = "EventCounts"
            /\ args' = [c |-> c, query |-> q, summarizeBy |-> by,
                        extraParams |-> extraParams, order |-> order, resp |-> resp]
            /\ ret' = EventCounts(c, q, by, extraParams, order, resp)

\* Client.Events(query, extraParams)
EventsCall ==
    /\ op = "init"
    /\ UNCHANGED <<history, heap, procs>>
    /\ \E c \in FactClients, q \in QueryTexts, extraParams \in QueryExtras,
          resp \in ListResponses(EventElements) :
        \E order \in Orders(Keys(mergeParam(query, q, extraParams))) :
            /\ op' = "Events"
            /\ args' = [c |-> c, query |-> q, extraParams |-> extraParams,
                        order |-> order, resp |-> resp]
            /\ ret' = Events(c, q, extraParams, order, resp)

\* Client.Resources(query, extraParams)
ResourcesCall ==
    /\ op = "init"
    /\ UNCHANGED <<history, heap, procs>>
    /\ \E c \in FactClients, q \in QueryTexts, extraParams \in QueryExtras,
          resp \in ListResponses(ResourceElements) :
        \E order \in Orders(Keys(mergeParam(query, q, extraParams))) :
            /\ op' = "Resources"
            /\ args' = [c |-> c, query |-> q, extraParams |-> extraParams,
                        order |-> order, resp |-> resp]
            /\ ret' = Resources(c, q, extraParams, order, resp)

\* Client.Reports(query, extraParams)
ReportsCall ==
    /\ op = "init"
    /\ UNCHANGED <<history, heap, procs>>
    /\ \E c \in FactClients, q \in QueryTexts, extraParams \in QueryExtras,
          resp \in ListResponses(ReportElements) :
        \E order \in Orders(Keys(mergeParam(query, q, extraParams))) :
            /\ op' = "Reports"
            /\ args' = [c |-> c, query |-> q, extraParams |-> extraParams,
                        order |-> order, resp |-> resp]
            /\ ret' = Reports(c, q, extraParams, order, resp)

\* Client.ReportByHash(hash)
ReportByHashCall ==
    /\ op = "init"
    /\ UNCHANGED <<history, heap, procs>>
    /\ \E c \in FactClients, hash \in Hashes, resp \in ListResponses(ReportElements) :
        /\ op' = "ReportByHash"
        /\ args' = [c |-> c, hash |-> hash, order |-> <<query>>, resp |-> resp]
        /\ ret' = ReportByHash(c, hash, <<query>>, resp)

\* Client.PuppetdbVersion()
PuppetdbVersionCall ==
    /\ op = "init"
    /\ UNCHANGED <<history, heap, procs>>
    /\ \E c \in FactClients, resp \in RecordResponses(VersionElements) :
        /\ op' = "PuppetdbVersion"
        /\ args' = [c |-> c, resp |-> resp]
        /\ ret' = PuppetdbVersion(c, resp)

\* Client.MetricResourcesPerNode()
MetricResourcesPerNodeCall ==
    /\ op = "init"
    /\ UNCHANGED <<history, heap, procs>>
    /\ \E c \in FactClients, operandFirst \in BOOLEAN,
          resp \in RecordResponses(MetricElements) :
        /\ op' = "MetricResourcesPerNode"
        /\ args' = [c |-> c, operandFirst |-> operandFirst, resp |-> resp]
        /\ ret' = MetricResourcesPerNode(c, operandFirst, resp)

\* Client.MetricNumResources()
MetricNumResourcesCall ==
    /\ op = "init"
    /\ UNCHANGED <<history, heap, procs>>
    /\ \E c \in FactClients, operandFirst \in BOOLEAN,
          resp \in RecordResponses(MetricElements) :
        /\ op' = "MetricNumResources"
        /\ args' = [c |-> c, operandFirst |-> operandFirst, resp |-> resp]
        /\ ret' = MetricNumResources(c, operandFirst, resp)

\* Client.MetricNumNodes()
MetricNumNodesCall ==
    /\ op = "init"
    /\ UNCHANGED <<history, heap, procs>>
    /\ \E c \in FactClients, operandFirst \in BOOLEAN,
          resp \in RecordResponses(MetricElements) :
        /\ op' = "MetricNumNodes"
        /\ args' = [c |-> c, operandFirst |-> operandFirst, resp |-> resp]
        /\ ret' = MetricNumNodes(c, operandFirst, resp)

\* ClientMaster.Get(v, path), v holding a pointer to a PuppetCertificateState
MasterGetCall ==
    /\ op = "init"
    /\ UNCHANGED <<history, heap, procs>>
    /\ \E c \in MasterClients, path \in MasterPaths, resp \in MasterResponses :
        /\ op' = "MasterGet"
        /\ args' = [c |-> c, path |-> path, resp |-> resp]
        /\ ret' = MasterGet(c, PuppetCertificateState, Zero(PuppetCertificateState),
                            path, resp)

\* ClientMaster.Put(v, path, values), v holding a pointer to a
\* PuppetCertificateState
MasterPutCall ==
    /\ op = "init"
    /\ UNCHANGED <<history, heap, procs>>
    /\ \E c \in MasterClients, path \in MasterPaths, values \in PutValues,
          resp \in MasterResponses :
        /\ op' = "MasterPut"
        /\ args' = [c |-> c, path |-> path, values |-> values, resp |-> resp]
        /\ ret' = MasterPut(c, PuppetCertificateState, Zero(PuppetCertificateState),
                            path, values, resp)

\* ClientMaster.Delete(path)
MasterDeleteCall ==
    /\ op = "init"
    /\ UNCHANGED <<history, heap, procs>>
    /\ \E c \in MasterClients, path \in MasterPaths, resp \in MasterResponses :
        /\ op' = "MasterDelete"
        /\ args' = [c |-> c, path |-> path, resp |-> resp]
        /\ ret' = MasterDelete(c, path, resp)

\* the caller is done with the result: every value is built fresh per call and
\* nothing is kept between calls
Discard ==
    /\ op # "init"
    /\ history = << >>
    /\ procs = << >>
    /\ op' = "init"
    /\ args' = NoArgs
    /\ ret' = NoArgs
    /\ UNCHANGED <<history, heap, procs>>

Next ==
    \/ MergeParam
    \/ QueryToJSONCall
    \/ ClientGet
    \/ NodeFacts
    \/ FactPerNode
    \/ NodesCall
    \/ FactNamesCall
    \/ EventCountsCall
    \/ EventsCall
    \/ ResourcesCall
    \/ ReportsCall
    \/ ReportByHashCall
    \/ PuppetdbVersionCall
    \/ MetricResourcesPerNodeCall
    \/ MetricNumResourcesCall
    \/ MetricNumNodesCall
    \/ MasterGetCall
    \/ MasterPutCall
    \/ MasterDeleteCall
    \/ Discard

Spec == Init /\ [][Next]_vars

------------------------------------------------------------------------------
(* Calls that follow each other on one client: client.Nodes(), then
   client.NodeFacts(...), and so on. The operations keep nothing between
   calls, so each is run on its own arguments and the transport's answer to
   it. *)

\* operation o run on the arguments a
Run(o, a) ==
    CASE o = "Get" -> Get(a.c, a.path, a.params, a.order, a.resp)
      [] o = "NodeFacts" -> GetFacts(a.c, NodeFactsPath(a.node), a.resp)
      [] o = "FactPerNode" -> GetFacts(a.c, FactPerNodePath(a.fact), a.resp)
      [] o = "Nodes" -> Nodes(a.c, a.resp)
      [] o = "FactNames" -> FactNames(a.c, a.resp)
      [] o = "EventCounts" ->
            EventCounts(a.c, a.query, a.summarizeBy, a.extraParams, a.order, a.resp)
      [] o = "Events" -> Events(a.c, a.query, a.extraParams, a.order, a.resp)
      [] o = "Resources" -> Resources(a.c, a.query, a.extraParams, a.order, a.resp)
      [] o = "Reports" -> Reports(a.c, a.query, a.extraParams, a.order, a.resp)
      [] o = "ReportByHash" -> ReportByHash(a.c, a.hash, a.order, a.resp)
      [] o = "PuppetdbVersion" -> PuppetdbVersion(a.c, a.resp)
      [] o = "MetricResourcesPerNode" -> MetricResourcesPerNode(a.c, a.operandFirst, a.resp)
      [] o = "MetricNumResources" -> MetricNumResources(a.c, a.operandFirst, a.resp)
      [] o = "MetricNumNodes" -> MetricNumNodes(a.c, a.operandFirst, a.resp)
      [] o = "MasterGet" ->
            MasterGet(a.c, PuppetCertificateState, Zero(PuppetCertificateState),
                      a.path, a.resp)
      [] o = "MasterPut" ->
            MasterPut(a.c, PuppetCertificateState, Zero(PuppetCertificateState),
                      a.path, a.values, a.resp)
      [] o = "MasterDelete" -> MasterDelete(a.c, a.path, a.resp)

\* the most calls that follow each other
MaxCalls == 2

\* the one client and the one master client of the calls
theClient == [BaseURL |-> <<"h", "/", "p">>, api |-> "v4"]

theMaster == [BaseURL |-> <<"h", "/", "p">>, verbose |-> FALSE]

\* the answers of the transport to the calls
SomeResponses(element, other) ==
    { TransportError, Response(Body(JArray(<<element>>))), Response(Body(JArray(<<other>>))) }

SomeMasterResponses ==
    { NoResponse, Answer(200, Body(JObject([desired_state |-> JString(<<"s">>)]))),
      Answer(404, Body(JObject([desired_state |-> JString(<<"t">>)]))) }

Call(o, a) == [op |-> o, args |-> a]

\* the calls a caller makes: every operation, on the same client, with few
\* arguments and few answers
SessionCalls ==
    { Call("Get", [c |-> theClient, path |-> <<"e">>, params |-> NilMap,
                   order |-> << >>, resp |-> resp]) :
        resp \in SomeResponses(JString(<<"f">>), JString(<<"g">>)) }
    \cup { Call(o, [c |-> theClient, resp |-> resp]) :
        o \in {"Nodes"},
        resp \in SomeResponses(JObject(WellNode), JObject(Without(WellNode, "deactivated"))) }
    \cup { Call("FactNames", [c |-> theClient, resp |-> resp]) :
        resp \in SomeResponses(JString(<<"f">>), JString(<<"g">>)) }
    \cup { Call("NodeFacts", [c |-> theClient, node |-> <<"n">>, resp |-> resp]) :
        resp \in SomeResponses(JObject(WellFormed), JNumber(7)) }
    \cup { Call("FactPerNode", [c |-> theClient, fact |-> <<"n">>, resp |-> resp]) :
        resp \in SomeResponses(JObject(WellFormed), JNumber(7)) }
    \cup { Call("EventCounts",
                [c |-> theClient, query |-> <<"Q">>, summarizeBy |-> <<"R">>,
                 extraParams |-> NilMap, order |-> <<query, summarizeBy>>,
                 resp |-> resp]) :
        resp \in SomeResponses(JObject(WellEventCount), JObject(<< >>)) }
    \cup { Call("Events", [c |-> theClient, query |-> <<"Q">>, extraParams |-> NilMap,
                           order |-> <<query>>, resp |-> resp]) :
        resp \in SomeResponses(JObject(WellEvent), JObject(<< >>)) }
    \cup { Call("Resources", [c |-> theClient, query |-> <<"Q">>, extraParams |-> NilMap,
                              order |-> <<query>>, resp |-> resp]) :
        resp \in SomeResponses(JObject(WellResource), JObject(<< >>)) }
    \cup { Call("Reports", [c |-> theClient, query |-> <<"Q">>, extraParams |-> NilMap,
                            order |-> <<query>>, resp |-> resp]) :
        resp \in SomeResponses(JObject(WellReport), JObject(<< >>)) }
    \cup { Call("ReportByHash", [c |-> theClient, hash |-> <<"h">>, order |-> <<query>>,
                                 resp |-> resp]) :
        resp \in SomeResponses(JObject(WellReport), JObject(<< >>)) }
    \cup { Call("PuppetdbVersion", [c |-> theClient, resp |-> resp]) :
        resp \in { TransportError, Response(Body(JObject([version |-> JString(<<"2">>)]))),
                   Response(Body(JObject([version |-> JString(<<"3">>)]))) } }
    \cup { Call(o, [c |-> theClient, operandFirst |-> FALSE, resp |-> resp]) :
        o \in {"MetricResourcesPerNode", "MetricNumResources", "MetricNumNodes"},
        resp \in { TransportError, Response(Body(JObject([Value |-> JNumber(309)]))),
                   Response(Body(JObject([Value |-> JNumber(7)]))) } }
    \cup { Call("MasterGet", [c |-> theMaster, path |-> path, resp |-> resp]) :
        path \in MasterPaths, resp \in SomeMasterResponses }
    \cup { Call("MasterPut", [c |-> theMaster, path |-> <<"/", "c">>, values |-> values,
                              resp |-> resp]) :
        values \in {NilValue, Str(<<"s">>)}, resp \in SomeMasterResponses }
    \cup { Call("MasterDelete", [c |-> theMaster, path |-> path, resp |-> resp]) :
        path \in MasterPaths, resp \in SomeMasterResponses }

\* the caller makes its next call
Invoke ==
    /\ Len(history) < MaxCalls
    /\ procs = << >>
    /\ \E call \in SessionCalls :
        /\ op' = call.op
        /\ args' = call.args
        /\ ret' = Run(call.op, call.args)
        /\ history' = Append(history, [op |-> op', args |-> args', ret |-> ret'])
    /\ UNCHANGED <<heap, procs>>

\* the caller is done with the client
SessionEnd ==
    /\ history # << >>
    /\ op' = "init"
    /\ args' = NoArgs
    /\ ret' = NoArgs
    /\ history' = << >>
    /\ UNCHANGED <<heap, procs>>

SessionNext ==
    \/ Invoke
    \/ SessionEnd

SessionSpec == Init /\ [][SessionNext]_vars

------------------------------------------------------------------------------
(* Concurrent invocations of mergeParam and QueryToJSON. Each invocation runs
   in a goroutine of its own and takes one step at a time: mergeParam makes
   its map, writes the primary parameter, copies one entry of params per
   step and returns; QueryToJSON takes a buffer, encodes one element per step
   and returns. The heap holds the maps and buffers by address; the caller
   owns the extra parameter set (owner 0) and writes to it only while no
   invocation reads it, as Go requires of a map. *)

MapObject(owner, m) == [kind |-> "map", owner |-> owner, m |-> m, asWritten |-> m]

BufferObject(owner) == [kind |-> "buffer", owner |-> owner, b |-> << >>]

Goroutine(fn, a) ==
    [fn |-> fn, pc |-> "call", a |-> a, obj |-> 0, todo |-> {}, i |-> 1, out |-> NoArgs]

\* the most invocations that run at a time
MaxGoroutines == 2

\* the extra parameter sets of the caller
CallerSets ==
    { [k \in {limit} |-> <<"1">>],
      [k \in {limit, query} |-> IF k = limit THEN <<"1">> ELSE <<"R">>] }

\* the maps of the caller
CallerMaps == { x \in 1..Len(heap) : heap[x].kind = "map" /\ heap[x].owner = 0 }

\* an invocation of mergeParam that has not returned is reading map x
Reading(x) ==
    \E g \in 1..Len(procs) :
        procs[g].fn = "mergeParam" /\ procs[g].pc # "done" /\ procs[g].a.params = x

\* extraParams := map[string]string{...}
CallerMakes ==
    /\ op = "init"
    /\ CallerMaps = {}
    /\ \E m \in CallerSets : heap' = Append(heap, MapObject(0, m))
    /\ UNCHANGED <<op, args, ret, history, procs>>

\* extraParams["limit"] = "2", once the invocations that read it have returned
CallerWrites ==
    /\ \E x \in CallerMaps :
        /\ ~Reading(x)
        /\ heap[x].m[limit] # <<"2">>
        /\ heap' = [heap EXCEPT ![x].m = MapPut(@, limit, <<"2">>),
                                ![x].asWritten = MapPut(@, limit, <<"2">>)]
    /\ UNCHANGED <<op, args, ret, history, procs>>

\* go mergeParam(paramName, paramValue, params): params is nil (0) or a map of
\* the caller; extra0 keeps what the map held at the call
GoMergeParam ==
    /\ op = "init"
    /\ Len(procs) < MaxGoroutines
    /\ \E name \in ParamNames, params \in {0} \cup CallerMaps :
        procs' = Append(procs, Goroutine("mergeParam",
            [paramName |-> name,
             paramValue |-> IF name = query THEN <<"Q">> ELSE <<"R">>,
             params |-> params,
             extra0 |-> IF params = 0 THEN NilMap ELSE MapOf(heap[params].m)]))
    /\ UNCHANGED <<op, args, ret, history, heap>>

\* the queries encoded concurrently
ConcurrentQueries == { Slice(<<Str(<<"=">>), Str(<<"a", "\"">>)>>), Str(<<"=">>) }

\* go QueryToJSON(query)
GoQueryToJSON ==
    /\ op = "init"
    /\ Len(procs) < MaxGoroutines
    /\ \E q \in ConcurrentQueries :
        procs' = Append(procs, Goroutine("QueryToJSON", [query |-> q]))
    /\ UNCHANGED <<op, args, ret, history, heap>>

\* A wrong make: the map of the caller is taken as the result.
ResultObjectReused(h, params) == IF params # 0 THEN params ELSE Len(h) + 1

\* resultParams := make(map[string]string): the address of a new object
ResultObject(h, params) == Len(h) + 1

\* mergeParam: resultParams := make(map[string]string)
MergeMake ==
    /\ \E g \in 1..Len(procs) :
        /\ procs[g].fn = "mergeParam"
        /\ procs[g].pc = "call"
        /\ LET obj == ResultObject(heap, procs[g].a.params)
           IN  /\ heap' = IF obj > Len(heap) THEN Append(heap, MapObject(g, << >>))
                          ELSE heap
               /\ procs' = [procs EXCEPT ![g].pc = "primary", ![g].obj = obj]
    /\ UNCHANGED <<op, args, ret, history>>

\* mergeParam: if paramValue != "" { resultParams[paramName] = paramValue }, and
\* the test params != nil && len(params) > 0 that opens the range
MergePrimary ==
    /\ \E g \in 1..Len(procs) :
        /\ procs[g].fn = "mergeParam"
        /\ procs[g].pc = "primary"
        /\ LET a == procs[g].a
               written == IF a.paramValue # EmptyString
                          THEN [heap EXCEPT ![procs[g].obj].m =
                                    MapPut(@, a.paramName, a.paramValue)]
                          ELSE heap
           IN  /\ heap' = written
               /\ procs' = [procs EXCEPT
                    ![g].pc = "range",
                    ![g].todo = IF a.params # 0 /\ DOMAIN written[a.params].m # {}
                                THEN DOMAIN written[a.params].m ELSE {}]
    /\ UNCHANGED <<op, args, ret, history>>

\* mergeParam: one round of for k, v := range params { resultParams[k] = v }
MergeRange ==
    /\ \E g \in 1..Len(procs) :
        /\ procs[g].fn = "mergeParam"
        /\ procs[g].pc = "range"
        /\ \E k \in procs[g].todo :
            /\ heap' = [heap EXCEPT ![procs[g].obj].m =
                            MapPut(@, k, heap[procs[g].a.params].m[k])]
            /\ procs' = [procs EXCEPT ![g].todo = @ \ {k}]
    /\ UNCHANGED <<op, args, ret, history>>

\* mergeParam: return resultParams
MergeReturn ==
    /\ \E g \in 1..Len(procs) :
        /\ procs[g].fn = "mergeParam"
        /\ procs[g].pc = "range"
        /\ procs[g].todo = {}
        /\ procs' = [procs EXCEPT
                ![g].pc = "done",
                ![g].out = [addr |-> procs[g].obj, m |-> heap[procs[g].obj].m]]
    /\ UNCHANGED <<op, args, ret, history, heap>>

\* A wrong encoder: one buffer serves every invocation.
EncodeBufferShared(h, g) ==
    IF \E x \in 1..Len(h) : h[x].kind = "buffer"
    THEN CHOOSE x \in 1..Len(h) : h[x].kind = "buffer"
    ELSE Len(h) + 1

\* json.Marshal: the buffer of this invocation, a new object
EncodeBuffer(h, g) == Len(h) + 1

\* the elements that QueryToJSON encodes one by one
ElementsOf(q) == IF q.t = "slice" /\ ~q.nil THEN q.e ELSE << >>

\* QueryToJSON: json.Marshal takes its buffer and starts the value: a '[' for a
\* sequence, the whole text for anything else
EncodeStart ==
    /\ \E g \in 1..Len(procs) :
        /\ procs[g].fn = "QueryToJSON"
        /\ procs[g].pc = "call"
        /\ LET q == procs[g].a.query
               obj == EncodeBuffer(heap, g)
               h == IF obj > Len(heap) THEN Append(heap, BufferObject(g)) ELSE heap
               text == IF q.t = "slice" /\ ~q.nil THEN <<"[">> ELSE Encode(q).buf
           IN  /\ heap' = [h EXCEPT ![obj].b = @ \o text]
               /\ procs' = [procs EXCEPT ![g].pc = "encode", ![g].obj = obj]
    /\ UNCHANGED <<op, args, ret, history>>

\* QueryToJSON: json.Marshal encodes the next element of the sequence
EncodeElement ==
    /\ \E g \in 1..Len(procs) :
        /\ procs[g].fn = "QueryToJSON"
        /\ procs[g].pc = "encode"
        /\ procs[g].i <= Len(ElementsOf(procs[g].a.query))
        /\ LET sep == IF procs[g].i > 1 THEN <<",">> ELSE << >>
               r == Encode(ElementsOf(procs[g].a.query)[procs[g].i])
           IN  /\ heap' = [heap EXCEPT ![procs[g].obj].b = @ \o sep \o r.buf]
               /\ procs' = [procs EXCEPT ![g].i = @ + 1]
    /\ UNCHANGED <<op, args, ret, history>>

\* QueryToJSON: json.Marshal closes the value and QueryToJSON returns
\* string(resultBytes[:]) and the error
EncodeReturn ==
    /\ \E g \in 1..Len(procs) :
        /\ procs[g].fn = "QueryToJSON"
        /\ procs[g].pc = "encode"
        /\ procs[g].i > Len(ElementsOf(procs[g].a.query))
        /\ LET q == procs[g].a.query
               close == IF q.t = "slice" /\ ~q.nil THEN <<"]">> ELSE << >>
           IN  /\ heap' = [heap EXCEPT ![procs[g].obj].b = @ \o close]
               /\ procs' = [procs EXCEPT
                    ![g].pc = "done",
                    ![g].out = [result |-> heap'[procs[g].obj].b, err |-> Encode(q).err]]
    /\ UNCHANGED <<op, args, ret, history>>

ConcurrentNext ==
    \/ CallerMakes
    \/ CallerWrites
    \/ GoMergeParam
    \/ GoQueryToJSON
    \/ MergeMake
    \/ MergePrimary
    \/ MergeRange
    \/ MergeReturn
    \/ EncodeStart
    \/ EncodeElement
    \/ EncodeReturn

ConcurrentSpec == Init /\ [][ConcurrentNext]_vars

------------------------------------------------------------------------------
(* Claims *)

\* C1: merging a non-empty value gives a set whose keys are keys(extra) united
\* with {name}; every key of extra keeps extra's value, and name maps to the
\* primary value only when extra does not contain name.
C1_MergeNonEmpty ==
    (op = "mergeParam" /\ args.paramValue # EmptyString) =>
        /\ Keys(ret) = Keys(args.params) \cup {args.paramName}
        /\ \A k \in Keys(args.params) : ret.m[k] = args.params.m[k]
        /\ args.paramName \notin Keys(args.params) => ret.m[args.paramName] = args.paramValue

C1_Witness ==
    /\ op = "mergeParam"
    /\ args.paramValue = <<"Q">>
    /\ args.paramName = query
    /\ ~args.params.nil
    /\ Keys(args.params) = {query, summarizeBy}
    /\ args.params.m[query] = <<"R">>
    /\ ret.m[query] = <<"R">>

\* C2: merging an empty value returns exactly the entries of extra and no
\* entry for name; with a nil or empty extra the result is the empty set, an
\* allocated (non-nil) map.
C2_MergeEmpty ==
    (op = "mergeParam" /\ args.paramValue = EmptyString) =>
        /\ ~ret.nil
        /\ Keys(ret) = Keys(args.params)
        /\ \A k \in Keys(args.params) : ret.m[k] = args.params.m[k]
        /\ (args.params.nil \/ Keys(args.params) = {}) => Keys(ret) = {}

C2_Witness ==
    /\ op = "mergeParam"
    /\ args.paramValue = EmptyString
    /\ args.paramName = query
    /\ args.params.nil
    /\ ~ret.nil
    /\ Keys(ret) = {}

------------------------------------------------------------------------------
(* A JSON reader, as encoding/json reads a text into an interface{}: a string
   becomes a string, an array a non-nil slice, null the nil interface. *)

JNull == [t |-> "nil"]

ParseFail == [ok |-> FALSE, v |-> JNull, i |-> 0]

IsSpace(c) == c \in {" ", "\n", "\t", "\r"}

RECURSIVE SkipSpace(_, _)
SkipSpace(s, i) == IF i <= Len(s) /\ IsSpace(s[i]) THEN SkipSpace(s, i + 1) ELSE i

\* the character of a \uXXXX escape
UnescapeU(h) ==
    CASE h = <<"0", "0", "3", "c">> -> "<"
      [] h = <<"0", "0", "3", "e">> -> ">"
      [] h = <<"0", "0", "2", "6">> -> "&"
      [] h = <<"f", "f", "f", "d">> -> "uFFFD"
      [] OTHER -> "?"

RECURSIVE ParseStringBody(_, _, _)
\* the string whose opening quote is before position i
ParseStringBody(s, i, acc) ==
    IF i > Len(s) THEN ParseFail
    ELSE IF s[i] = "\"" THEN [ok |-> TRUE, v |-> Str(acc), i |-> i + 1]
    ELSE IF s[i] = "\\" THEN
        IF i + 1 > Len(s) THEN ParseFail
        ELSE IF s[i + 1] \in {"\"", "\\", "/"}
            THEN ParseStringBody(s, i + 2, Append(acc, s[i + 1]))
        ELSE IF s[i + 1] = "u" /\ i + 5 <= Len(s)
            THEN ParseStringBody(s, i + 6, Append(acc, UnescapeU(SubSeq(s, i + 2, i + 5))))
        ELSE ParseFail
    ELSE IF s[i] = "xFF" THEN ParseStringBody(s, i + 1, Append(acc, "uFFFD"))
    ELSE ParseStringBody(s, i + 1, Append(acc, s[i]))

RECURSIVE ParseValue(_, _)
RECURSIVE ParseElems(_, _, _)

ParseValue(s, i0) ==
    LET i == SkipSpace(s, i0)
    IN  IF i > Len(s) THEN ParseFail
        ELSE IF s[i] = "\"" THEN ParseStringBody(s, i + 1, << >>)
        ELSE IF s[i] = "[" THEN
            LET j == SkipSpace(s, i + 1)
            IN  IF j <= Len(s) /\ s[j] = "]"
                THEN [ok |-> TRUE, v |-> Slice(<< >>), i |-> j + 1]
                ELSE ParseElems(s, j, << >>)
        ELSE IF i + 3 <= Len(s) /\ SubSeq(s, i, i + 3) = <<"n", "u", "l", "l">>
            THEN [ok |-> TRUE, v |-> JNull, i |-> i + 4]
        ELSE ParseFail

ParseElems(s, i, acc) ==
    LET r == ParseValue(s, i)
    IN  IF ~r.ok THEN ParseFail
        ELSE LET j == SkipSpace(s, r.i)
             IN  IF j > Len(s) THEN ParseFail
                 ELSE IF s[j] = "," THEN ParseElems(s, j + 1, Append(acc, r.v))
                 ELSE IF s[j] = "]"
                     THEN [ok |-> TRUE, v |-> Slice(Append(acc, r.v)), i |-> j + 1]
                 ELSE ParseFail

\* json.Unmarshal(text, &v) for v an interface{}
ParseJSON(s) ==
    LET r == ParseValue(s, 1)
    IN  IF r.ok /\ SkipSpace(s, r.i) = Len(s) + 1
        THEN [ok |-> TRUE, v |-> r.v]
        ELSE [ok |-> FALSE, v |-> JNull]

------------------------------------------------------------------------------
(* Claims about QueryToJSON *)

RECURSIVE Serializable(_)
\* built from strings and sequences only
Serializable(v) ==
    CASE v.t = "string" -> TRUE
      [] v.t = "slice" -> \A i \in 1..Len(v.e) : Serializable(v.e[i])
      [] OTHER -> FALSE

RECURSIVE HasNilSlice(_)
HasNilSlice(v) ==
    CASE v.t = "slice" -> v.nil \/ \E i \in 1..Len(v.e) : HasNilSlice(v.e[i])
      [] OTHER -> FALSE

RECURSIVE ValidUTF8(_)
\* every string of v is valid UTF-8
ValidUTF8(v) ==
    CASE v.t = "string" -> ~Contains(v.s, "xFF")
      [] v.t = "slice" -> \A i \in 1..Len(v.e) : ValidUTF8(v.e[i])
      [] OTHER -> TRUE

RECURSIVE JoinWith(_, _)
\* the strings of ss with sep between neighbours
JoinWith(ss, sep) ==
    IF ss = << >> THEN << >>
    ELSE IF Len(ss) = 1 THEN ss[1]
    ELSE ss[1] \o sep \o JoinWith(Tail(ss), sep)

\* the encoding of q when QueryToJSON is applied to q on its own
Enc(q) == QueryToJSON(q).result

\* '[' + the elements' encodings joined by ',' + ']'
Bracketed(q) == <<"[">> \o JoinWith([i \in 1..Len(q.e) |-> Enc(q.e[i])], <<",">>) \o <<"]">>

\* the sequences inside q, q included
RECURSIVE SubSlices(_)
SubSlices(v) ==
    IF v.t = "slice" THEN {v} \cup UNION { SubSlices(v.e[i]) : i \in 1..Len(v.e) }
    ELSE {}

\* the statement of C3 as written: every sequence renders as '[' + its
\* elements' encodings joined by ',' + ']'
C3_Original ==
    (op = "QueryToJSON" /\ Serializable(args.query)) =>
        /\ ret.err = NoError
        /\ \A v \in SubSlices(args.query) : Enc(v) = Bracketed(v)

\* C3 (amended): QueryToJSON returns the compact JSON text: every non-nil
\* sequence renders as '[' + its elements' encodings joined by ',' + ']' with
\* nothing between the tokens, in the original order at every nesting level;
\* a nil slice renders as null; a string renders between two quotes.
C3_Compact ==
    (op = "QueryToJSON" /\ Serializable(args.query)) =>
        /\ ret.err = NoError
        /\ ret.result = Enc(args.query)
        /\ \A v \in SubSlices(args.query) :
              IF v.nil THEN Enc(v) = <<"n", "u", "l", "l">> ELSE Enc(v) = Bracketed(v)
        /\ args.query.t = "string" =>
              /\ Len(ret.result) >= Len(args.query.s) + 2
              /\ ret.result[1] = "\"" /\ ret.result[Len(ret.result)] = "\""

C3_Witness ==
    /\ op = "QueryToJSON"
    /\ args.query = Slice(<<Str(<<"=">>), Slice(<<Str(<<"=">>), Str(<<"a", "\"">>)>>)>>)
    /\ ret.result = <<"[", "\"", "=", "\"", ",", "[", "\"", "=", "\"", ",",
                      "\"", "a", "\\", "\"", "\"", "]", "]">>

C5_EncodeError ==
    (op = "QueryToJSON" /\ ~Serializable(args.query)) =>
        /\ ret.err # NoError
        /\ ret.result = EmptyString

C5_Witness ==
    /\ op = "QueryToJSON"
    /\ args.query = Slice(<<Str(<<"=">>), Cyclic>>)
    /\ ret.err = "UnsupportedValueError"
    /\ ret.result = EmptyString

------------------------------------------------------------------------------
(* A URL query reader, as net/url reads a request target: url.Parse cuts the
   query at the first '?', url.ParseQuery cuts it at every '&', cuts each piece
   at its first '=' and unescapes both sides. *)

\* the position of the first c in s, or 0
IndexOf(s, c) ==
    IF Contains(s, c)
    THEN CHOOSE i \in 1..Len(s) : s[i] = c /\ \A j \in 1..(i - 1) : s[j] # c
    ELSE 0

RECURSIVE SplitOn(_, _)
\* strings.Split(s, c)
SplitOn(s, c) ==
    IF ~Contains(s, c) THEN <<s>>
    ELSE <<SubSeq(s, 1, IndexOf(s, c) - 1)>> \o SplitOn(SubSeq(s, IndexOf(s, c) + 1, Len(s)), c)

\* the byte of a %XX escape, "" when XX is no escape of the model's characters
Unhex(h) ==
    CASE h = <<"2", "6">> -> "&"
      [] h = <<"3", "D">> -> "="
      [] h = <<"3", "F">> -> "?"
      [] h = <<"2", "F">> -> "/"
      [] h = <<"2", "B">> -> "+"
      [] h = <<"2", "5">> -> "%"
      [] h = <<"2", "2">> -> "\""
      [] h = <<"2", "C">> -> ","
      [] h = <<"5", "B">> -> "["
      [] h = <<"5", "D">> -> "]"
      [] OTHER -> ""

RECURSIVE QueryUnescape(_)
\* url.QueryUnescape
QueryUnescape(s) ==
    IF s = << >> THEN [ok |-> TRUE, s |-> << >>]
    ELSE IF s[1] = "%" THEN
        IF Len(s) < 3 \/ Unhex(SubSeq(s, 2, 3)) = "" THEN [ok |-> FALSE, s |-> << >>]
        ELSE LET r == QueryUnescape(SubSeq(s, 4, Len(s)))
             IN  [ok |-> r.ok, s |-> <<Unhex(SubSeq(s, 2, 3))>> \o r.s]
    ELSE LET r == QueryUnescape(Tail(s))
         IN  [ok |-> r.ok, s |-> <<IF s[1] = "+" THEN " " ELSE s[1]>> \o r.s]

\* the query of a request target: what follows the first '?'
QueryPart(target) ==
    IF Contains(target, "?") THEN SubSeq(target, IndexOf(target, "?") + 1, Len(target))
    ELSE << >>

\* url.ParseQuery, as the list of the (key, value) pairs in the order read
ParseQuery(q) ==
    LET pieces == SplitOn(q, "&")
        key(x) == IF Contains(x, "=") THEN SubSeq(x, 1, IndexOf(x, "=") - 1) ELSE x
        val(x) == IF Contains(x, "=") THEN SubSeq(x, IndexOf(x, "=") + 1, Len(x)) ELSE << >>
        good(x) == x # << >> /\ QueryUnescape(key(x)).ok /\ QueryUnescape(val(x)).ok
    IN  [i \in 1..Len(pieces) |->
            IF good(pieces[i])
            THEN <<QueryUnescape(key(pieces[i])).s, QueryUnescape(val(pieces[i])).s>>
            ELSE << >>]

\* the set of key/value pairs a request target carries
ParsedPairs(target) ==
    LET l == ParseQuery(QueryPart(target))
    IN  { l[i] : i \in { j \in 1..Len(l) : l[j] # << >> } }

------------------------------------------------------------------------------
(* Claims about Client.Get and Client.httpGet *)

\* s with all its trailing '/' removed: the prefix of s that does not end in
\* '/' and is followed by '/' only
WithoutTrailingSlashes(s) ==
    LET n == CHOOSE k \in 0..Len(s) :
                /\ \A i \in (k + 1)..Len(s) : s[i] = "/"
                /\ k = 0 \/ s[k] # "/"
    IN  SubSeq(s, 1, n)

IsPrefix(p, s) == Len(p) <= Len(s) /\ SubSeq(s, 1, Len(p)) = p

\* the fixed API prefix of the client
FixedPrefix(c) ==
    IF c.api = "v4"
    THEN <<"/", "p", "d", "b", "/", "q", "u", "e", "r", "y", "/", "v", "4", "/">>
    ELSE <<"/", "v", "3", "/">>

\* the target of the request the last Get issued
Target == ret.requests[1].url

\* what the target carries after the base and the API prefix
Sent ==
    SubSeq(Target,
           Len(WithoutTrailingSlashes(args.c.BaseURL)) + Len(FixedPrefix(args.c)) + 1,
           Len(Target))

\* the fact operations, which take no parameters, issue one GET for their
\* endpoint
C6_FactTargets ==
    /\ (op = "NodeFacts") =>
          /\ Len(ret.requests) = 1
          /\ ret.requests[1].method = "GET"
          /\ Target = WithoutTrailingSlashes(args.c.BaseURL) \o FixedPrefix(args.c)
                        \o <<"n", "o", "d", "e", "s", "/">> \o args.node
                        \o <<"/", "f", "a", "c", "t", "s">>
    /\ (op = "FactPerNode") =>
          /\ Len(ret.requests) = 1
          /\ ret.requests[1].method = "GET"
          /\ Target = WithoutTrailingSlashes(args.c.BaseURL) \o FixedPrefix(args.c)
                        \o <<"f", "a", "c", "t", "s", "/">> \o args.fact

\* C6: a query operation issues one HTTP GET whose target is BaseURL without
\* its trailing slashes, then the fixed API prefix, then the endpoint; with a
\* nil or empty parameter set nothing more is appended.
C6_RequestTarget ==
    ((op = "Get") =>
        /\ Len(ret.requests) = 1
        /\ ret.requests[1].method = "GET"
        /\ IsPrefix(WithoutTrailingSlashes(args.c.BaseURL) \o FixedPrefix(args.c) \o args.path,
                    Target)
        /\ (args.params.nil \/ Keys(args.params) = {}) =>
              Target = WithoutTrailingSlashes(args.c.BaseURL) \o FixedPrefix(args.c) \o args.path)
    /\ C6_FactTargets

C6_Witness ==
    /\ op = "Get"
    /\ args.c = [BaseURL |-> <<"h", "/", "p", "/", "/">>, api |-> "v4"]
    /\ args.path = <<"e">>
    /\ args.params.nil
    /\ Target = <<"h", "/", "p", "/", "p", "d", "b", "/", "q", "u", "e", "r", "y", "/",
                  "v", "4", "/", "e">>

\* C7: for a parameter set with at least 2 entries, every order of the map
\* iteration gives a request target that parses to the same set of key/value
\* pairs.
C7_OrderIndependent ==
    (op = "Get" /\ MapLen(args.params) >= 2) =>
        \A o \in Orders(Keys(args.params)) :
            ParsedPairs(httpGetURL(args.c, PathAndParams(args.path, args.params, o)))
                = ParsedPairs(Target)

\* C8: with a non-empty parameter set, one '?' is appended when the path has
\* none, and none when the path has one: the pairs then follow the path text
\* directly.
C8_QuestionMark ==
    (op = "Get" /\ ~args.params.nil /\ MapLen(args.params) > 0) =>
        IF Contains(args.path, "?")
        THEN Sent = args.path \o ParamPairs(args.params, args.order)
        ELSE Sent = args.path \o <<"?">> \o ParamPairs(args.params, args.order)

C8_Witness ==
    /\ op = "Get"
    /\ args.path = <<"e", "?", "x", "=", "1">>
    /\ Keys(args.params) = {<<"a">>}
    /\ args.params.m[<<"a">>] = <<" ", "&">>
    /\ Sent = <<"e", "?", "x", "=", "1", "a", "=", "+", "%", "2", "6", "&">>

------------------------------------------------------------------------------
(* Type-checked extraction from a decoded value *)

\* "as string": the string a container holds, or a TypeMismatch
AsString(g) ==
    IF ~g.nilptr /\ g.object.j = "string"
    THEN [err |-> NoError, s |-> g.object.s]
    ELSE [err |-> "TypeMismatch", s |-> EmptyString]

\* "as number": the number a container holds, or a TypeMismatch
AsNumber(g) ==
    IF ~g.nilptr /\ g.object.j = "number"
    THEN [err |-> NoError, n |-> g.object.n]
    ELSE [err |-> "TypeMismatch", n |-> 0]

------------------------------------------------------------------------------
(* Claims about Client.GetFacts *)

FactsCall == op \in {"NodeFacts", "FactPerNode"}

\* the response is a JSON array
ArrayResponse ==
    args.resp.err = NoError /\ args.resp.body.valid /\ args.resp.body.value.j = "array"

Elements == args.resp.body.value.e

\* element e is a fact object whose certname, environment and name are strings
\* and that has a value
FactWithValue(e) ==
    /\ e.j = "object"
    /\ {"certname", "environment", "name", "value"} \subseteq DOMAIN e.f
    /\ \A k \in {"certname", "environment", "name"} : e.f[k].j = "string"

\* C9: whatever JSON type the 'value' of the fact elements has, NodeFacts and
\* FactPerNode return without failure or abort and each record's Value holds
\* the JSON value of its element.
C9_ValueNeverFails ==
    (FactsCall /\ ArrayResponse /\ \A i \in 1..Len(Elements) : FactWithValue(Elements[i])) =>
        /\ ret.outcome = "return"
        /\ ret.err = NoError
        /\ Len(ret.ret) = Len(Elements)
        /\ \A i \in 1..Len(Elements) :
              /\ ~ret.ret[i].Value.nilptr
              /\ ret.ret[i].Value.object = Elements[i].f["value"]

C9_Witness ==
    /\ op = "NodeFacts"
    /\ ArrayResponse
    /\ Len(Elements) = 2
    /\ FactWithValue(Elements[1]) /\ Elements[1].f["value"].j = "object"
    /\ FactWithValue(Elements[2]) /\ Elements[2].f["value"].j = "null"
    /\ ret.outcome = "return"
    /\ ret.ret[1].Value.object.j = "object"

\* C10: a fact value decoded from the JSON string "9708003" yields "9708003"
\* when extracted as a string, and extracting it as a number fails with a
\* TypeMismatch.
C10_TypedExtraction ==
    (FactsCall /\ ArrayResponse /\ ret.outcome = "return") =>
        \A i \in 1..Len(ret.ret) :
            (Elements[i].j = "object" /\ "value" \in DOMAIN Elements[i].f
                /\ Elements[i].f["value"] = JString(uptime)) =>
                /\ AsString(ret.ret[i].Value) = [err |-> NoError, s |-> uptime]
                /\ AsNumber(ret.ret[i].Value).err = "TypeMismatch"

C10_Witness ==
    /\ op = "NodeFacts"
    /\ ArrayResponse
    /\ Len(Elements) = 1
    /\ Elements[1] = JObject(With(WellFormed, "value", JString(uptime)))
    /\ ret.outcome = "return"
    /\ AsString(ret.ret[1].Value).s = uptime
    /\ AsNumber(ret.ret[1].Value).err = "TypeMismatch"

------------------------------------------------------------------------------
(* Claims about the decoding of a response *)

\* the operations that decode a response through Client.Get into a typed value
TypedOps ==
    { "Nodes", "FactNames", "EventCounts", "Events", "Resources", "Reports",
      "ReportByHash", "PuppetdbVersion" }

MetricOps == { "MetricResourcesPerNode", "MetricNumResources", "MetricNumNodes" }

FactOps == { "NodeFacts", "FactPerNode" }

QueryOps == TypedOps \cup MetricOps \cup FactOps

\* the transport answered the call with a body that is JSON
Answered == args.resp.err = NoError /\ args.resp.body.valid

\* C11: when the body of the response to Nodes() is a JSON object in place of
\* a JSON array, the call returns a non-nil error and zero records.
C11_ObjectBodyFails ==
    (op = "Nodes" /\ Answered /\ args.resp.body.value.j = "object") =>
        (ret.err # NoError /\ ret.ret = << >>)

\* the type an operation decodes into, and the value it starts from
TargetOf(o) ==
    CASE o = "Nodes" -> TSlice(NodeJSON)
      [] o = "FactNames" -> TSlice(TString)
      [] o = "EventCounts" -> TSlice(EventCountJSON)
      [] o = "Events" -> TSlice(EventJSON)
      [] o = "Resources" -> TSlice(Resource)
      [] o \in {"Reports", "ReportByHash"} -> TSlice(ReportJSON)
      [] o = "PuppetdbVersion" -> Version
      [] o \in MetricOps -> ValueMetricJSON

\* the records of the body and of the result of a typed operation: the elements
\* of a list, or the one record of PuppetdbVersion and of the metrics
BodyRecords ==
    IF TargetOf(op).k = "slice"
    THEN (IF args.resp.body.value.j = "array" THEN args.resp.body.value.e ELSE << >>)
    ELSE <<args.resp.body.value>>

RecordType == IF TargetOf(op).k = "slice" THEN TargetOf(op).elem ELSE TargetOf(op)

ResultRecords == IF TargetOf(op).k = "slice" THEN ret.ret ELSE <<ret.ret>>

\* a fact element all of whose fields map: an object with strings under
\* certname, environment and name
FactMapsCleanly(e) ==
    /\ e.j = "object"
    /\ \A k \in {"certname", "environment", "name"} :
          k \in DOMAIN e.f /\ e.f[k].j = "string"

\* every record of the body maps to its record type: the body is JSON of the
\* shape of the target and every value has the type of its field
MappedCleanly ==
    /\ args.resp.body.valid
    /\ IF op \in FactOps
       THEN /\ args.resp.body.value.j = "array"
            /\ \A i \in 1..Len(Elements) : FactMapsCleanly(Elements[i])
       ELSE ~Decode(args.resp.body, TargetOf(op), Zero(TargetOf(op))).err

\* C12: for every query operation and every body of the response, either every
\* record mapped cleanly and no error is returned, or the call returns a
\* non-nil error.
C12_NoPartialSuccess ==
    (op \in QueryOps /\ args.resp.err = NoError) =>
        /\ ret.outcome = "return"
        /\ (ret.err = NoError => MappedCleanly)

\* the body is a list of objects (for PuppetdbVersion and the metrics, an
\* object) in which every value present has the type of its field
ObjectRecords ==
    /\ Answered
    /\ IF op \in FactOps
       THEN /\ args.resp.body.value.j = "array"
            /\ \A i \in 1..Len(Elements) :
                  /\ Elements[i].j = "object"
                  /\ \A k \in {"certname", "environment", "name"} \cap DOMAIN Elements[i].f :
                        Elements[i].f[k].j \in {"string", "null"}
       ELSE /\ args.resp.body.value.j = (IF TargetOf(op).k = "slice" THEN "array" ELSE "object")
            /\ \A i \in 1..Len(BodyRecords) : BodyRecords[i].j = "object"
            /\ ~Decode(args.resp.body, TargetOf(op), Zero(TargetOf(op))).err

\* the Go field of a fact record that holds the value under a key
FactField(k) ==
    CASE k = "certname" -> "CertName"
      [] k = "environment" -> "Environment"
      [] k = "name" -> "Name"

\* C13: an element that lacks a key of its record type decodes with the field
\* at its zero value, and the call completes without error or abort; this
\* holds for every operation, NodeFacts and FactPerNode included.
C13_MissingKeys ==
    (op \in QueryOps /\ ObjectRecords) =>
        /\ ret.outcome = "return"
        /\ ret.err = NoError
        /\ IF op \in FactOps
           THEN /\ Len(ret.ret) = Len(Elements)
                /\ \A i \in 1..Len(Elements) :
                      \A k \in {"certname", "environment", "name"} \ DOMAIN Elements[i].f :
                          ret.ret[i][FactField(k)] = EmptyString
           ELSE IF op \in MetricOps
           THEN "Value" \notin DOMAIN args.resp.body.value.f => ret.ret = 0
           ELSE /\ Len(ResultRecords) = Len(BodyRecords)
                /\ \A i \in 1..Len(BodyRecords) :
                      \A f \in (DOMAIN RecordType.fields) \ DOMAIN BodyRecords[i].f :
                          ResultRecords[i][f] = Zero(RecordType.fields[f])

\* C14: a JSON null under the key of a string field decodes to the empty
\* string and the call completes without error or abort; this holds for
\* nodes, reports and the entries of a report's logs, and for the certname,
\* environment and name of a fact.
C14_NullStrings ==
    (op \in QueryOps \ MetricOps /\ ObjectRecords) =>
        /\ ret.outcome = "return"
        /\ ret.err = NoError
        /\ IF op \in FactOps
           THEN /\ Len(ret.ret) = Len(Elements)
                /\ \A i \in 1..Len(Elements) :
                      \A k \in {"certname", "environment", "name"} \cap DOMAIN Elements[i].f :
                          Elements[i].f[k].j = "null" =>
                              ret.ret[i][FactField(k)] = EmptyString
           ELSE /\ Len(ResultRecords) = Len(BodyRecords)
                /\ \A i \in 1..Len(BodyRecords) :
                      \A f \in (DOMAIN RecordType.fields) \cap DOMAIN BodyRecords[i].f :
                          (RecordType.fields[f] = TString /\ BodyRecords[i].f[f].j = "null")
                              => ResultRecords[i][f] = EmptyString

\* a JSON value without the keys that its target type does not declare
RECURSIVE StripUnknown(_, _)
StripUnknown(j, T) ==
    IF T.k = "struct" /\ j.j = "object"
    THEN JObject([f \in (DOMAIN j.f) \cap (DOMAIN T.fields) |->
                    StripUnknown(j.f[f], T.fields[f])])
    ELSE IF T.k = "slice" /\ j.j = "array"
    THEN JArray([i \in 1..Len(j.e) |-> StripUnknown(j.e[i], T.elem)])
    ELSE j

FactKeys == {"certname", "environment", "name", "value"}

\* the response without the keys that the records of the operation do not declare
Stripped ==
    IF op \in FactOps
    THEN Response(Body(JArray([i \in 1..Len(Elements) |->
            JObject([k \in (DOMAIN Elements[i].f) \cap FactKeys |-> Elements[i].f[k]])])))
    ELSE Response(Body(StripUnknown(args.resp.body.value, TargetOf(op))))

\* the body is a list of records whose values have the types of their fields,
\* and some record has a key that its type does not declare
UnknownKeys ==
    /\ ObjectRecords
    /\ op \in FactOps => \A i \in 1..Len(Elements) : FactMapsCleanly(Elements[i])
    /\ Stripped # args.resp

InitialOf(o) ==
    IF o \in MetricOps THEN 0
    ELSE IF o = "PuppetdbVersion" THEN Zero(Version)
    ELSE << >>

\* C16: when the transport fails, every query operation returns the
\* transport's error unchanged, decodes nothing and returns the empty result
\* it started from.
C16_TransportError ==
    /\ (op = "Get" /\ args.resp.err # NoError) =>
          (ret.err = args.resp.err /\ ret.v = << >>)
    /\ (op \in QueryOps /\ args.resp.err # NoError) =>
          /\ ret.outcome = "return"
          /\ ret.err = args.resp.err
          /\ ret.ret = InitialOf(op)
          /\ op \notin FactOps => ~ret.decoded

\* Reports or NodeFacts got no response and returned the transport's error and
\* an empty list
C16_Witness ==
    /\ op \in {"Reports", "NodeFacts"}
    /\ args.resp = TransportError
    /\ ret.err = "transport error"
    /\ ret.ret = << >>

------------------------------------------------------------------------------
(* Claims about the metrics *)

------------------------------------------------------------------------------
(* Claims about calls that follow each other *)

\* the arguments of a call without the transport's answer
Asked(call) == [k \in (DOMAIN call.args) \ {"resp"} |-> call.args[k]]

\* two calls of the same operation with the same arguments
SameCall(a, b) == a.op = b.op /\ Asked(a) = Asked(b)

------------------------------------------------------------------------------
(* Claims about concurrent invocations and about the sets mergeParam builds *)

\* C18: under every interleaving of concurrent invocations of mergeParam and
\* QueryToJSON, several of them reading the same extra parameter set included,
\* each invocation returns what it returns when it runs alone.
C18_AsAlone ==
    \A g \in 1..Len(procs) :
        procs[g].pc = "done" =>
            IF procs[g].fn = "mergeParam"
            THEN procs[g].out.m =
                    mergeParam(procs[g].a.paramName, procs[g].a.paramValue,
                               procs[g].a.extra0).m
            ELSE procs[g].out = QueryToJSON(procs[g].a.query)

\* two invocations of mergeParam read the same extra set at the same time:
\* the second made its map first and is still copying when the first returns
C18_Witness ==
    /\ Len(procs) = 2
    /\ procs[1].fn = "mergeParam" /\ procs[2].fn = "mergeParam"
    /\ procs[1].a.params # 0 /\ procs[2].a.params = procs[1].a.params
    /\ procs[1].pc = "done"
    /\ procs[2].pc = "range" /\ procs[2].todo # {}
    /\ procs[2].obj < procs[1].obj
    /\ procs[1].out.m = [k \in {limit, query} |-> IF k = limit THEN <<"1">> ELSE <<"Q">>]

\* C19: mergeParam leaves its extra set as the caller wrote it, and returns a
\* map that it made itself: not the extra set, not the map of another
\* invocation, and not altered by what the caller writes to the extra set
\* afterwards.
C19_FreshSet ==
    /\ \A x \in CallerMaps : heap[x].m = heap[x].asWritten
    /\ \A g \in 1..Len(procs) :
          (procs[g].fn = "mergeParam" /\ procs[g].pc = "done") =>
              /\ procs[g].out.addr # procs[g].a.params
              /\ heap[procs[g].out.addr].owner = g
              /\ heap[procs[g].out.addr].m = procs[g].out.m
              /\ \A h \in 1..Len(procs) :
                    (h # g /\ procs[h].fn = "mergeParam" /\ procs[h].pc = "done")
                        => procs[h].out.addr # procs[g].out.addr

\* the caller changed 'limit' in its extra set after mergeParam returned: the
\* set that mergeParam built still has the old value
C19_Witness ==
    \E g \in 1..Len(procs) :
        /\ procs[g].fn = "mergeParam"
        /\ procs[g].pc = "done"
        /\ procs[g].a.params # 0
        /\ procs[g].a.extra0.m[limit] = <<"1">>
        /\ heap[procs[g].a.params].m[limit] = <<"2">>
        /\ heap[procs[g].out.addr].m[limit] = <<"1">>

------------------------------------------------------------------------------
(* Claims about the records of NodeFacts and FactPerNode *)

\* C21: for a body that is a JSON array of n fact objects, NodeFacts and
\* FactPerNode return exactly n records in the order of the array; record i
\* carries the certname, environment and name of element i, and its Value is
\* what parsing the 'value' of element i on its own gives.
C21_RecordsInOrder ==
    (FactsCall /\ ArrayResponse /\ \A i \in 1..Len(Elements) : FactWithValue(Elements[i])) =>
        /\ ret.outcome = "return"
        /\ Len(ret.ret) = Len(Elements)
        /\ \A i \in 1..Len(Elements) :
              /\ ret.ret[i].CertName = Elements[i].f["certname"].s
              /\ ret.ret[i].Environment = Elements[i].f["environment"].s
              /\ ret.ret[i].Name = Elements[i].f["name"].s
              /\ ret.ret[i].Value = gabsParseJSON(Body(Elements[i].f["value"]))

C21_Witness ==
    /\ op = "FactPerNode"
    /\ ArrayResponse
    /\ Len(Elements) = 2
    /\ Elements[1] = JObject(Kernel)
    /\ Elements[2] = JObject(With(WellFormed, "value", JNumber(42)))
    /\ ret.outcome = "return"
    /\ ret.ret[1].CertName = <<"c">> /\ ret.ret[1].Environment = <<"e">>
    /\ ret.ret[1].Name = <<"k">> /\ ret.ret[1].Value.object = JString(<<"L">>)
    /\ ret.ret[2].Name = <<"n">> /\ ret.ret[2].Value.object = JNumber(42)

------------------------------------------------------------------------------
(* Claims about the parameters of the query operations *)

\* the entries of a parameter set, as key/value pairs
Entries(params) == { <<k, params.m[k]>> : k \in Keys(params) }

\* a named argument takes part when it is non-empty and the extra parameters
\* have no entry under its name
Named(name, value, extraParams) ==
    IF value # EmptyString /\ name \notin Keys(extraParams) THEN { <<name, value>> } ELSE {}

\* C22: EventCounts(query, summarizeBy, extraParams) sends every entry of
\* extraParams, query -> query when query is non-empty and extraParams has no
\* 'query', and summarize-by -> summarizeBy when summarizeBy is non-empty and
\* extraParams has no 'summarize-by', and nothing else; EventCounts("", s, nil)
\* sends only summarize-by -> s.
C22_EventCountsParams ==
    (op = "EventCounts") =>
        /\ Len(ret.requests) = 1
        /\ ParsedPairs(Target) =
              Entries(args.extraParams)
                  \cup Named(query, args.query, args.extraParams)
                  \cup Named(summarizeBy, args.summarizeBy, args.extraParams)
        /\ (args.query = EmptyString /\ args.summarizeBy # EmptyString /\ args.extraParams.nil) =>
              ParsedPairs(Target) = { <<summarizeBy, args.summarizeBy>> }

C22_Witness ==
    /\ op = "EventCounts"
    /\ args.query = <<"Q">>
    /\ args.summarizeBy = <<"Q">>
    /\ Keys(args.extraParams) = {summarizeBy}
    /\ ParsedPairs(Target) = { <<query, <<"Q">>>>, <<summarizeBy, <<"R">>>> }

\* the value the request target carries under the key 'query'
SentQuery ==
    LET values == { p[2] : p \in { x \in ParsedPairs(Target) : x[1] = query } }
    IN  IF values = {} THEN EmptyString ELSE CHOOSE v \in values : TRUE

\* C23: the query expression the library itself writes is in the compact wire
\* form, with no whitespace between its tokens and with its strings escaped as
\* JSON: the 'query' value ReportByHash(hash) sends is the text QueryToJSON
\* gives for ["=", "hash", hash], for every hash.
C23_HashQueryCompact ==
    (op = "ReportByHash") =>
        SentQuery = QueryToJSON(Slice(<<Str(<<"=">>), Str(<<"h", "a", "s", "h">>),
                                        Str(args.hash)>>)).result

------------------------------------------------------------------------------
(* Claims about the errors of the operations built on Client.Get *)

\* the result of an operation whose answer had status 200 and the first JSON
\* value of the body on its own
CleanResult ==
    LET v == Decode(Body(args.resp.body.value), TargetOf(op),
                    IF op \in MetricOps THEN Zero(ValueMetricJSON) ELSE InitialOf(op)).v
    IN  IF op \in MetricOps THEN v.Value ELSE v

ErrorOnlyFromTransport ==
    (op \in TypedOps \cup MetricOps) =>
        /\ ret.outcome = "return"
        /\ (ret.err # NoError) <=> (args.resp.err # NoError)
        /\ (Answered /\ op \in TypedOps) => ret.ret = CleanResult

------------------------------------------------------------------------------
(* Claims about the shape of a facts response *)

\* C25: NodeFacts and FactPerNode, answered with a body that is valid JSON but
\* not an array (an object or a scalar), return a non-nil error and zero fact
\* records.
C25_NotAnArray ==
    (FactsCall /\ Answered /\ ~args.resp.body.trailing /\ args.resp.body.value.j # "array") =>
        /\ ret.outcome = "return"
        /\ ret.err # NoError
        /\ ret.ret = << >>

C25_Witness ==
    /\ op = "NodeFacts"
    /\ args.resp = Response(Body(JObject(WellFormed)))
    /\ ret.outcome = "return"
    /\ ret.err = "ErrNotArray"
    /\ ret.ret = << >>

------------------------------------------------------------------------------
(* Claims about the query part of the request target *)

\* C26: for every parameter set and every path, with or without a query part
\* of its own, reading the query part of the request target of Client.Get
\* with a URL query reader yields the entries of the parameter set together
\* with the parameters already in the path: no entry is lost, merged with a
\* neighbour or split, whatever characters a key holds.
C26_QueryRoundTrip ==
    (op = "Get") =>
        ParsedPairs(Target) = Entries(args.params) \cup ParsedPairs(args.path)

------------------------------------------------------------------------------
(* Claims about ClientMaster.Put and ClientMaster.Delete *)

\* the same Put by a client that differs in its verbose flag only
PutOtherwise ==
    MasterPut([args.c EXCEPT !.verbose = ~args.c.verbose], PuppetCertificateState,
              Zero(PuppetCertificateState), args.path, args.values, args.resp)

\* C27: for the same response of the server, the state ClientMaster.Put
\* decodes into its result, the error and the status code are the same
\* whether the verbose flag of the client is true or false.
C27_VerboseSame ==
    (op = "MasterPut") =>
        /\ ret.v = PutOtherwise.v
        /\ ret.err = PutOtherwise.err
        /\ ret.statusCode = PutOtherwise.statusCode

\* Put and Delete got no HTTP response: Put was called with nil values, the
\* request could not be constructed, or the transport gave an error and no
\* response
NoResponseObtained ==
    \/ op = "MasterPut" /\ args.values = NilValue
    \/ NewRequestFails(masterURL(args.c, args.path))
    \/ args.resp.nilresp

\* C28 as stated: ClientMaster.Put and ClientMaster.Delete return status code
\* -1 exactly when no HTTP response was obtained, Put with nil values sending
\* no request and returning 'No values specified'; in every other case they
\* return the status code of the response with a nil error.
C28_Original ==
    (op \in {"MasterPut", "MasterDelete"}) =>
        /\ (ret.statusCode = -1) <=> NoResponseObtained
        /\ (op = "MasterPut" /\ args.values = NilValue) =>
              (ret.requests = << >> /\ ret.err = "No values specified")
        /\ ~NoResponseObtained =>
              (ret.statusCode = args.resp.status /\ ret.err = NoError)

\* C28, amended: ClientMaster.Put and ClientMaster.Delete return status code -1
\* exactly when no HTTP response was obtained, Put with nil values sending no
\* request and returning 'No values specified'; in every other case they
\* return the status code of the response together with the error of the
\* transport, which is nil unless the response came with an error (the
\* redirect limit).
C28_StatusCode ==
    (op \in {"MasterPut", "MasterDelete"}) =>
        /\ (ret.statusCode = -1) <=> NoResponseObtained
        /\ NoResponseObtained => ret.err # NoError
        /\ (op = "MasterPut" /\ args.values = NilValue) =>
              (ret.requests = << >> /\ ret.err = "No values specified")
        /\ ~NoResponseObtained =>
              (ret.statusCode = args.resp.status /\ ret.err = args.resp.err)

\* Delete ran into the redirect limit: the status code of the last response
\* comes back with the error
C28_Witness ==
    /\ op = "MasterDelete"
    /\ args.resp = TooManyRedirects
    /\ ~NoResponseObtained
    /\ ret.statusCode = 302
    /\ ret.err = "stopped after 10 redirects"

------------------------------------------------------------------------------
(* Claims about empty values and the segments of the request target *)

\* p occurs in s as a run of consecutive characters
IsInfix(p, s) == \E i \in 0..(Len(s) - Len(p)) : SubSeq(s, i + 1, i + Len(p)) = p

\* C29: mergeParam leaves out only an empty primary value: every entry of
\* extra is inserted even when its value is the empty string, so that an extra
\* entry name -> "" replaces a non-empty primary value by "", and Client.Get
\* then writes that entry as 'name=&'.
C29_EmptyExtraKept ==
    /\ (op = "mergeParam") =>
          \A k \in Keys(args.params) :
              args.params.m[k] = EmptyString => (k \in Keys(ret) /\ ret.m[k] = EmptyString)
    /\ (op = "Get") =>
          \A k \in Keys(args.params) :
              args.params.m[k] = EmptyString => IsInfix(k \o <<"=", "&">>, Sent)
    /\ (op = "EventCounts") =>
          \A k \in Keys(args.extraParams) :
              args.extraParams.m[k] = EmptyString =>
                  /\ <<k, EmptyString>> \in ParsedPairs(Target)
                  /\ IsInfix(k \o <<"=", "&">>, Target)

C29_Witness ==
    /\ op = "EventCounts"
    /\ args.summarizeBy = <<"Q">>
    /\ summarizeBy \in Keys(args.extraParams)
    /\ args.extraParams.m[summarizeBy] = EmptyString
    /\ <<summarizeBy, EmptyString>> \in ParsedPairs(Target)
    /\ IsInfix(summarizeBy \o <<"=", "&">>, Target)

\* what Client.Get appended to the path and its '?'
Appended ==
    SubSeq(Sent, Len(args.path) + (IF Contains(args.path, "?") THEN 0 ELSE 1) + 1, Len(Sent))

\* the segment of one entry: key '=' escaped(value) '&'
Segment(params, k) == k \o <<"=">> \o QueryEscape(params.m[k]) \o <<"&">>

\* C30: for a parameter set with n >= 1 entries, Client.Get appends exactly n
\* segments of the form key '=' escaped(value) '&', one per key and none
\* repeated, so that the request target ends with a '&' after the last pair.
C30_TrailingAmpersand ==
    (op = "Get" /\ ~args.params.nil /\ MapLen(args.params) >= 1) =>
        /\ \E o \in Orders(Keys(args.params)) :
              /\ Len(o) = MapLen(args.params)
              /\ Appended = Concat([i \in 1..Len(o) |-> Segment(args.params, o[i])])
        /\ Target[Len(Target)] = "&"

C30_Witness ==
    /\ op = "Get"
    /\ args.path = <<"e">>
    /\ Keys(args.params) = {<<"a">>, <<"b">>}
    /\ args.params.m[<<"a">>] = <<"1">>
    /\ args.params.m[<<"b">>] = <<" ", "&">>
    /\ args.order = <<<<"b">>, <<"a">>>>
    /\ Sent = <<"e", "?", "b", "=", "+", "%", "2", "6", "&", "a", "=", "1", "&">>

====
